---- MODULE Spec2Model ----
(***************************************************************************)
(* Plan validation and execution of the DataVitals preparation pipeline:   *)
(* PipelineValidator (core/cleaning/validator.py), PipelineExecutor        *)
(* (core/cleaning/executor.py) and the transforms of ops/cleaning_ops.py   *)
(* and ops/feature_ops.py.                                                 *)
(*                                                                         *)
(* A dataset is abstracted to what the executor and the validator observe: *)
(* its row count, its column names, which columns have a numeric dtype,    *)
(* and `cells`, the lineage of transforms that rewrote cell values (two    *)
(* frames with the same lineage hold the same cells).  Row counts that     *)
(* depend on the cell values (outliers, duplicates, missing rows) are      *)
(* chosen nondeterministically among the counts the data can produce.      *)
(***************************************************************************)
EXTENDS Integers, Sequences, FiniteSets, TLC

VARIABLES
    df,             \* the caller's dataset (argument of execute)
    profile,        \* PipelineValidator.profile
    plan,           \* the plan under validation / execution
    pc,             \* position: "start", "validated", "loop", "done"
    vres,           \* what validate returned (or that it raised)
    i,              \* enumerate() index of the executor's loop
    current_df,     \* executor's current_df
    execution_log,  \* executor's execution_log
    seen,           \* the current_df each step received, in step order
    result,         \* what execute (or dry_run) returned
    df_before,      \* the caller's dataset as it was before the first call
    obj,            \* identity of the object current_df names
    sample_df,      \* dry_run's sample_df
    history,        \* the calls already made on the dataset, oldest first
    session,        \* the entries of sessions[session_id] the routes write
    response        \* the response of the /execute route

vars == <<df, profile, plan, pc, vres, i, current_df, execution_log, seen, result,
          df_before, obj, sample_df, history, session, response>>

---------------------------------------------------------------------------
(* Bounds *)

MaxSteps == 3
MaxRows == 2
MaxRequests == 2

---------------------------------------------------------------------------
(* Python helpers *)

None == "<None>"

\* dict.get(key, default)
Get(d, k, default) == IF k \in DOMAIN d THEN d[k] ELSE default

Range(s) == {s[n] : n \in 1..Len(s)}

Max(a, b) == IF a >= b THEN a ELSE b

\* DataFrame.shape
Shape(d) == <<d.rows, Cardinality(d.columns)>>

\* pd.api.types.is_numeric_dtype(df[col])
IsNumericDtype(d, col) == col \in d.numeric

---------------------------------------------------------------------------
(* Object identity.  A frame object is named by what made it; `n` tells the  *)
(* objects of one maker apart within a call.                                *)

\* the object the caller passes as df
CallerObject == [made_by |-> "caller", n |-> 0]

\* an assignment in place of the copy: the same object (mutation of
\* DataFrameCopy)
DataFrameCopyAliased(o) == o

\* DataFrame.copy(): a new object
DataFrameCopy(o) == [made_by |-> "copy", n |-> o.n + 1]

\* DataFrame.sample(...): a new object
DataFrameSample(o) == [made_by |-> "sample", n |-> o.n + 1]

---------------------------------------------------------------------------
(* Operation vocabulary *)

\* keys of PipelineExecutor.operations
Registry ==
    {"drop_duplicates", "drop_columns", "fill_missing", "remove_outliers",
     "filter_rows", "sort_by", "handle_missing_rows", "handle_missing_columns",
     "scale_numeric", "encode_categorical", "create_feature",
     "extract_datetime_features", "create_text_features",
     "aggregate_features", "handle_high_cardinality"}

\* a validator vocabulary that also admits a name the executor does not
\* register (mutation of VALID_OPERATIONS)
VALID_OPERATIONS_Wider ==
    {"drop_duplicates", "drop_columns", "fill_missing", "remove_outliers",
     "scale_numeric", "encode_categorical", "create_feature", "sort_by",
     "filter_rows", "impute_knn"}

VALID_OPERATIONS ==
    {"drop_duplicates", "drop_columns", "fill_missing", "remove_outliers",
     "scale_numeric", "encode_categorical", "create_feature", "sort_by",
     "filter_rows"}

FILL_STRATEGIES == {"mean", "median", "mode", "constant", "forward", "backward"}
OUTLIER_METHODS == {"iqr", "zscore", "isolation_forest"}
SCALING_METHODS == {"standard", "minmax", "robust"}
ENCODING_METHODS == {"onehot", "label", "ordinal"}

\* the kind test that admits only "numeric" (mutation of NUMERIC_TYPES)
NUMERIC_TYPES_NumericOnly == {"numeric"}

NUMERIC_TYPES == {"numeric", "categorical_numeric"}

\* the values each transform has an if/elif branch for
FILL_BRANCHES == {"constant", "mean", "median", "mode", "forward", "backward"}
OUTLIER_BRANCHES == {"iqr", "zscore"}
SCALING_BRANCHES == {"standard", "minmax", "robust"}
ENCODING_BRANCHES == {"label", "onehot", "ordinal"}

---------------------------------------------------------------------------
(* Transforms: each yields the set of outcomes the data can produce.  An   *)
(* outcome is the returned frame, or a raise together with the argument    *)
(* frame as the call left it (the object current_df still names).          *)

Returns(d) == [raised |-> FALSE, df |-> d, error |-> None]
\* a raise that leaves the argument frame without its rows (mutation of
\* Raises)
RaisesAfterClearing(d, e) ==
    [raised |-> TRUE, df |-> [d EXCEPT !.rows = 0], error |-> e]

Raises(d, e) == [raised |-> TRUE, df |-> d, error |-> e]

\* a new frame with rewritten cell values
Rewritten(d, tag) == [d EXCEPT !.cells = Append(@, tag)]

\* row counts left by a row filter whose mask depends on the cell values
Filtered(d) == {[d EXCEPT !.rows = n] : n \in 0..d.rows}

\* DataFrame.duplicated(subset, keep) of the k-th row of a frame that carries
\* its cell values (`data`, one record per row); keep=False is written
\* "False", subset=None is <<>> (all columns)
Duplicated(d, subset, keep, k) ==
    LET cols == IF subset = <<>> THEN d.columns ELSE Range(subset)
        Same(j) == \A c \in cols : d.data[j][c] = d.data[k][c]
    IN  CASE keep = "first" -> \E j \in 1..(k - 1) : Same(j)
          [] keep = "last" -> \E j \in (k + 1)..d.rows : Same(j)
          [] keep = "False" -> \E j \in 1..d.rows : j # k /\ Same(j)

\* the rows that are not duplicated, in their order, under their index labels
KeptRows(d, subset, keep) ==
    LET kept == SelectSeq([k \in 1..d.rows |-> k],
                          LAMBDA k : ~Duplicated(d, subset, keep, k))
    IN  [d EXCEPT !.rows = Len(kept),
                  !.index = [m \in 1..Len(kept) |-> d.index[kept[m]]],
                  !.data = [m \in 1..Len(kept) |-> d.data[kept[m]]]]

\* for a frame that carries only its row count, any count the data can give
drop_duplicates(d, params) ==
    LET subset == Get(params, "subset", <<>>)
        keep == Get(params, "keep", "first")
    IN  IF d.rows = 0 \/ d.columns = {}
        THEN {Returns(d)}                 \* DataFrame.empty: a copy
        ELSE IF \E c \in Range(subset) : c \notin d.columns
        THEN {Raises(d, "KeyError")}
        ELSE IF "data" \in DOMAIN d
        THEN {Returns(KeptRows(d, subset, keep))}
        ELSE {Returns([d EXCEPT !.rows = n]) :
                n \in IF d.rows = 0 THEN {0} ELSE 1..d.rows}

\* drop_columns without the existence filter: df.drop raises on an absent
\* label (mutation of drop_columns)
drop_columns_unfiltered(d, params) ==
    LET columns == Get(params, "columns", <<>>)
    IN  IF \E col \in Range(columns) : col \notin d.columns
        THEN {Raises(d, "KeyError")}
        ELSE {Returns([d EXCEPT !.columns = @ \ Range(columns),
                                !.numeric = @ \ Range(columns)])}

\* drop_columns with the existence filter inverted: the present columns are
\* left out of the drop (mutation of drop_columns)
drop_columns_inverted_filter(d, params) ==
    LET columns == Get(params, "columns", <<>>)
        columns_to_drop == {col \in Range(columns) : col \notin d.columns}
    IN  IF columns_to_drop # {} THEN {Raises(d, "KeyError")}
        ELSE {Returns(d)}

drop_columns(d, params) ==
    LET columns == Get(params, "columns", <<>>)
        columns_to_drop == {col \in Range(columns) : col \in d.columns}
    IN  {Returns([d EXCEPT !.columns = @ \ columns_to_drop,
                           !.numeric = @ \ columns_to_drop])}

\* fill_missing without its df.copy(): the caller's frame is written before
\* fillna raises (mutation of fill_missing)
fill_missing_in_place(d, params) ==
    LET column == Get(params, "column", None)
        strategy == Get(params, "strategy", "mean")
        value == Get(params, "value", None)
    IN  IF column \notin d.columns THEN {Returns(d)}
        ELSE IF strategy = "constant" /\ value = None
             THEN {Raises(Rewritten(d, "fill_missing"), "ValueError")}
             ELSE {Returns(Rewritten(d, "fill_missing"))}

fill_missing(d, params) ==
    LET column == Get(params, "column", None)
        strategy == Get(params, "strategy", "mean")
        value == Get(params, "value", None)
    IN  IF column \notin d.columns THEN {Returns(d)}
        ELSE IF strategy \notin FILL_BRANCHES THEN {Returns(d)}
        ELSE CASE strategy = "constant" ->
                    IF value = None THEN {Raises(d, "ValueError")}
                    ELSE {Returns(Rewritten(d, "fill_missing"))}
               [] strategy \in {"mean", "median"} ->
                    IF IsNumericDtype(d, column)
                    THEN {Returns(Rewritten(d, "fill_missing"))}
                    ELSE {Returns(d)}
               [] strategy = "mode" -> {Returns(Rewritten(d, "fill_missing"))}
               [] strategy \in {"forward", "backward"} ->
                    \* fillna(method=...) is rejected by pandas builds that
                    \* removed the keyword
                    {Returns(Rewritten(d, "fill_missing")), Raises(d, "TypeError")}

remove_outliers(d, params) ==
    LET column == Get(params, "column", None)
        method == Get(params, "method", "iqr")
    IN  IF column \notin d.columns THEN {Returns(d)}
        ELSE IF ~IsNumericDtype(d, column) THEN {Returns(d)}
        ELSE IF method \in OUTLIER_BRANCHES
             THEN {Returns(f) : f \in Filtered(d)}
             ELSE {Returns(d)}

sort_by(d, params) ==
    LET column == Get(params, "column", None)
    IN  IF column \notin d.columns THEN {Returns(d)}
        ELSE {Returns(Rewritten(d, "sort_by"))}

handle_missing_rows(d, params) ==
    IF d.columns = {} THEN {Returns([d EXCEPT !.rows = 0])}
    ELSE {Returns(f) : f \in Filtered(d)}

scale_numeric(d, params) ==
    LET columns == Get(params, "columns", <<>>)
        method == Get(params, "method", "standard")
        numeric_cols == {col \in Range(columns) :
                            col \in d.columns /\ IsNumericDtype(d, col)}
    IN  IF numeric_cols = {} THEN {Returns(d)}
        ELSE IF method \notin SCALING_BRANCHES THEN {Returns(d)}
        ELSE IF d.rows = 0
             THEN {Raises(d, "ValueError")}   \* scaler.fit on 0 samples
             ELSE {Returns(Rewritten(d, "scale_numeric"))}

\* f"{col}_{value}" for the n-th category kept by get_dummies
DummyName(col, n) == col \o "_" \o ToString(n)

encode_categorical(d, params) ==
    LET columns == Get(params, "columns", <<>>)
        method == Get(params, "method", "onehot")
        valid_cols == {col \in Range(columns) : col \in d.columns}
    IN  IF valid_cols = {} THEN {Returns(d)}
        ELSE IF method \notin ENCODING_BRANCHES THEN {Returns(d)}
        ELSE CASE method = "label" ->
                    {Returns([Rewritten(d, "encode_categorical")
                                EXCEPT !.numeric = @ \cup valid_cols])}
               [] method = "onehot" ->
                    \* drop_first: one dummy per distinct value but the first
                    {Returns(
                        LET dummies == {DummyName(col, n) :
                                          col \in valid_cols, n \in 1..k}
                        IN  [Rewritten(d, "encode_categorical")
                               EXCEPT !.columns = (@ \ valid_cols) \cup dummies,
                                      !.numeric = (@ \ valid_cols) \cup dummies])
                     : k \in 0..Max(d.rows - 1, 0)}
               [] method = "ordinal" ->
                    {Returns([Rewritten(d, "encode_categorical")
                                EXCEPT !.numeric = @ \cup valid_cols])}
                    \cup (IF \E col \in valid_cols : ~IsNumericDtype(d, col)
                          THEN {Raises(d, "TypeError")}   \* sorted() over NaN and str
                          ELSE {})

\* the comparisons of filter_rows, on numbers
Compare(operator, x, v) ==
    CASE operator = "==" -> x = v
      [] operator = "!=" -> x # v
      [] operator = ">" -> x > v
      [] operator = "<" -> x < v
      [] operator = ">=" -> x >= v
      [] operator = "<=" -> x <= v

\* df[df[column] <op> value] of a frame that carries its cell values
RowsWhere(d, column, operator, value) ==
    LET kept == SelectSeq([k \in 1..d.rows |-> k],
                          LAMBDA k : Compare(operator, d.data[k][column], value))
    IN  [d EXCEPT !.rows = Len(kept),
                  !.index = [m \in 1..Len(kept) |-> d.index[kept[m]]],
                  !.data = [m \in 1..Len(kept) |-> d.data[kept[m]]]]

\* a row filter on one column.  An ordering comparison of a column that is
\* not numeric with the value raises TypeError when the cells and the value
\* do not compare
filter_rows(d, params) ==
    LET column == Get(params, "column", None)
        operator == Get(params, "operator", "==")
        value == Get(params, "value", None)
    IN  IF column \notin d.columns THEN {Returns(d)}
        ELSE IF "data" \in DOMAIN d /\ operator \in {"==", "!=", ">", "<", ">=", "<="}
        THEN {Returns(RowsWhere(d, column, operator, value))}
        ELSE IF operator \in {"==", "!="}
        THEN {Returns(f) : f \in Filtered(d)}
        ELSE IF operator \in {">", "<", ">=", "<="}
        THEN {Returns(f) : f \in Filtered(d)}
             \cup (IF ~IsNumericDtype(d, column) /\ d.rows > 0
                   THEN {Raises(d, "TypeError")} ELSE {})
        ELSE {Returns(d)}     \* "in" with a value that is not a list, or no branch

\* the columns kept are those whose missing ratio is under the threshold; the
\* ratio of a frame without rows is NaN, which is under no threshold
handle_missing_columns(d, params) ==
    IF d.rows = 0 THEN {Returns([d EXCEPT !.columns = {}, !.numeric = {}])}
    ELSE {Returns([d EXCEPT !.columns = kept, !.numeric = @ \cap kept]) :
            kept \in SUBSET d.columns}

\* 'expression' is held as the sequence of the column names it combines;
\* df.eval raises on a name that is not a column, or on operands that do not
\* combine, and the bare except swallows it
create_feature(d, params) ==
    LET name == Get(params, "name", None)
        expression == Get(params, "expression", <<>>)
        feature_type == Get(params, "type", "arithmetic")
        added == [Rewritten(d, "create_feature")
                    EXCEPT !.columns = @ \cup {name}, !.numeric = @ \cup {name}]
    IN  CASE feature_type = "arithmetic" ->
                IF expression # <<>> /\ Range(expression) \subseteq d.columns
                THEN {Returns(added)}
                     \cup (IF Range(expression) \subseteq d.numeric
                           THEN {} ELSE {Returns(d)})
                ELSE {Returns(d)}
          [] feature_type = "binning" ->
                LET column == Get(params, "column", None)
                IN  IF column \in d.columns /\ IsNumericDtype(d, column)
                    THEN {Returns(added)} \cup (IF d.rows = 0 THEN {Raises(d, "ValueError")} ELSE {})
                    ELSE {Returns(d)}
          [] feature_type = "interaction" ->
                LET cols == Get(params, "columns", <<>>)
                IN  IF Len(cols) >= 2 /\ Range(cols) \subseteq d.columns
                    THEN {Returns(added)}
                         \cup (IF Range(cols) \subseteq d.numeric
                               THEN {} ELSE {Raises(d, "TypeError")})
                    ELSE {Returns(d)}
          [] OTHER -> {Returns(d)}

DATETIME_FEATURES == <<"year", "month", "day", "dayofweek", "hour", "quarter">>

extract_datetime_features(d, params) ==
    LET column == Get(params, "column", None)
        features == Get(params, "features", <<"year", "month", "day", "dayofweek">>)
        made == {column \o "_" \o f : f \in Range(features) \cap Range(DATETIME_FEATURES)}
    IN  IF column \notin d.columns THEN {Returns(d)}
        ELSE {Returns(d),        \* pd.to_datetime raises: the copy as it is
              Returns([Rewritten(d, "extract_datetime_features")
                         EXCEPT !.columns = @ \cup made,
                                !.numeric = (@ \ {column}) \cup made])}

create_text_features(d, params) ==
    LET column == Get(params, "column", None)
        made == {column \o "_length", column \o "_word_count", column \o "_char_count"}
    IN  IF column \notin d.columns THEN {Returns(d)}
        ELSE {Returns([Rewritten(d, "create_text_features")
                         EXCEPT !.columns = @ \cup made,
                                !.numeric = (@ \ {column}) \cup made])}

\* transform(agg_func) raises on a column the function does not apply to
aggregate_features(d, params) ==
    LET group_by == Get(params, "group_by", None)
        agg_column == Get(params, "agg_column", None)
        agg_func == Get(params, "agg_func", "mean")
        agg_name == agg_column \o "_" \o agg_func \o "_by_" \o group_by
    IN  IF group_by \notin d.columns \/ agg_column \notin d.columns
        THEN {Returns(d)}
        ELSE {Returns([Rewritten(d, "aggregate_features")
                         EXCEPT !.columns = @ \cup {agg_name},
                                !.numeric = @ \cup {agg_name}])}
             \cup (IF IsNumericDtype(d, agg_column) THEN {}
                   ELSE {Raises(d, "TypeError")})

handle_high_cardinality(d, params) ==
    LET column == Get(params, "column", None)
        strategy == Get(params, "strategy", "top_n")
    IN  IF column \notin d.columns THEN {Returns(d)}
        ELSE CASE strategy = "top_n" ->
                    {Returns(Rewritten(d, "handle_high_cardinality"))}
               [] strategy = "frequency_encode" ->
                    {Returns([Rewritten(d, "handle_high_cardinality")
                                EXCEPT !.columns = @ \cup {column \o "_freq"},
                                       !.numeric = @ \cup {column \o "_freq"}])}
               [] OTHER -> {Returns(d)}

\* self.operations[op_name](current_df, params)
Operation(op_name, d, params) ==
    CASE op_name = "drop_duplicates" -> drop_duplicates(d, params)
      [] op_name = "drop_columns" -> drop_columns(d, params)
      [] op_name = "fill_missing" -> fill_missing(d, params)
      [] op_name = "remove_outliers" -> remove_outliers(d, params)
      [] op_name = "sort_by" -> sort_by(d, params)
      [] op_name = "handle_missing_rows" -> handle_missing_rows(d, params)
      [] op_name = "scale_numeric" -> scale_numeric(d, params)
      [] op_name = "encode_categorical" -> encode_categorical(d, params)
      [] op_name = "filter_rows" -> filter_rows(d, params)
      [] op_name = "handle_missing_columns" -> handle_missing_columns(d, params)
      [] op_name = "create_feature" -> create_feature(d, params)
      [] op_name = "extract_datetime_features" -> extract_datetime_features(d, params)
      [] op_name = "create_text_features" -> create_text_features(d, params)
      [] op_name = "aggregate_features" -> aggregate_features(d, params)
      [] op_name = "handle_high_cardinality" -> handle_high_cardinality(d, params)

\* whether the transform leaves by one of its early `return df`, handing back
\* the very object it was given
ReturnsArgument(op_name, d, params) ==
    CASE op_name \in {"fill_missing", "sort_by", "filter_rows",
                      "extract_datetime_features", "create_text_features",
                      "handle_high_cardinality"} ->
            Get(params, "column", None) \notin d.columns
      [] op_name = "aggregate_features" ->
            \/ Get(params, "group_by", None) \notin d.columns
            \/ Get(params, "agg_column", None) \notin d.columns
      [] op_name = "remove_outliers" ->
            \/ Get(params, "column", None) \notin d.columns
            \/ ~IsNumericDtype(d, Get(params, "column", None))
      [] op_name = "scale_numeric" ->
            \A col \in Range(Get(params, "columns", <<>>)) :
                ~(col \in d.columns /\ IsNumericDtype(d, col))
      [] op_name = "encode_categorical" ->
            \A col \in Range(Get(params, "columns", <<>>)) : col \notin d.columns
      [] OTHER -> FALSE

\* the object current_df names after `current_df = operation(current_df,
\* params)` returned at loop index `index`
ResultObject(op_name, d, params, o, index) ==
    IF ReturnsArgument(op_name, d, params) THEN o
    ELSE [made_by |-> "operation", n |-> index + 1]

---------------------------------------------------------------------------
(* PipelineValidator *)

\* one message of the error list: f"Step {step}: {msg} '{arg}'"; step 0 is a
\* message about the plan itself
Err(step, msg, arg) == [step |-> step, msg |-> msg, arg |-> arg]

RECURSIVE Concat(_)
Concat(ss) == IF ss = <<>> THEN <<>> ELSE Head(ss) \o Concat(Tail(ss))

\* self.available_columns
AvailableColumns(prof) == prof.column_names

\* self.column_types.get(col)
ColumnType(prof, col) == Get(prof.inferred_type, col, None)

\* the "does not exist" message of each listed column that is not available
MissingColumnErrors(prof, columns, prefix) ==
    Concat([n \in 1..Len(columns) |->
              IF columns[n] \notin AvailableColumns(prof)
              THEN <<Err(prefix, "Column does not exist", columns[n])>>
              ELSE <<>>])

\* (the 'columns' of the plans of this model are lists, the 'column' strings)
ValidateDropColumns(prof, params, prefix) ==
    IF "columns" \notin DOMAIN params
    THEN <<Err(prefix, "drop_columns requires 'columns' parameter", None)>>
    ELSE MissingColumnErrors(prof, params["columns"], prefix)

ValidateFillMissing(prof, params, prefix) ==
    IF "column" \notin DOMAIN params
    THEN <<Err(prefix, "fill_missing requires 'column' parameter", None)>>
    ELSE LET column == params["column"]
             strategy == Get(params, "strategy", "mean")
         IN  IF column \notin AvailableColumns(prof)
             THEN <<Err(prefix, "Column does not exist", column)>>
             ELSE (IF strategy \notin FILL_STRATEGIES
                   THEN <<Err(prefix, "Invalid fill strategy", strategy)>>
                   ELSE <<>>)
                  \o
                  (IF strategy \in {"mean", "median"}
                      /\ ColumnType(prof, column) \notin NUMERIC_TYPES
                   THEN <<Err(prefix, "Cannot use strategy on non-numeric column", column)>>
                   ELSE <<>>)

ValidateRemoveOutliers(prof, params, prefix) ==
    IF "column" \notin DOMAIN params
    THEN <<Err(prefix, "remove_outliers requires 'column' parameter", None)>>
    ELSE LET column == params["column"]
             method == Get(params, "method", "iqr")
         IN  IF column \notin AvailableColumns(prof)
             THEN <<Err(prefix, "Column does not exist", column)>>
             ELSE (IF ColumnType(prof, column) \notin NUMERIC_TYPES
                   THEN <<Err(prefix, "Cannot remove outliers from non-numeric column", column)>>
                   ELSE <<>>)
                  \o
                  (IF method \notin OUTLIER_METHODS
                   THEN <<Err(prefix, "Invalid outlier method", method)>>
                   ELSE <<>>)

ValidateScaleNumeric(prof, params, prefix) ==
    IF "columns" \notin DOMAIN params
    THEN <<Err(prefix, "scale_numeric requires 'columns' parameter", None)>>
    ELSE LET columns == params["columns"]
             method == Get(params, "method", "standard")
         IN  Concat([n \in 1..Len(columns) |->
                       IF columns[n] \notin AvailableColumns(prof)
                       THEN <<Err(prefix, "Column does not exist", columns[n])>>
                       ELSE IF ColumnType(prof, columns[n]) \notin NUMERIC_TYPES
                       THEN <<Err(prefix, "Cannot scale non-numeric column", columns[n])>>
                       ELSE <<>>])
             \o
             (IF method \notin SCALING_METHODS
              THEN <<Err(prefix, "Invalid scaling method", method)>>
              ELSE <<>>)

ValidateEncodeCategorical(prof, params, prefix) ==
    IF "columns" \notin DOMAIN params
    THEN <<Err(prefix, "encode_categorical requires 'columns' parameter", None)>>
    ELSE LET method == Get(params, "method", "onehot")
         IN  MissingColumnErrors(prof, params["columns"], prefix)
             \o
             (IF method \notin ENCODING_METHODS
              THEN <<Err(prefix, "Invalid encoding method", method)>>
              ELSE <<>>)

ValidateSortBy(prof, params, prefix) ==
    IF "column" \notin DOMAIN params
    THEN <<Err(prefix, "sort_by requires 'column' parameter", None)>>
    ELSE IF params["column"] \notin AvailableColumns(prof)
         THEN <<Err(prefix, "Column does not exist", params["column"])>>
         ELSE <<>>

\* _validate_step(step, index)
ValidateStep(prof, step, index) ==
    LET prefix == index + 1
    IN  IF "op" \notin DOMAIN step
        THEN <<Err(prefix, "Missing 'op' field", None)>>
        ELSE IF step["op"] \notin VALID_OPERATIONS
        THEN <<Err(prefix, "Unknown operation", step["op"])>>
        ELSE LET op == step["op"]
                 params == Get(step, "params", <<>>)
             IN  CASE op = "drop_columns" -> ValidateDropColumns(prof, params, prefix)
                   [] op = "fill_missing" -> ValidateFillMissing(prof, params, prefix)
                   [] op = "remove_outliers" -> ValidateRemoveOutliers(prof, params, prefix)
                   [] op = "scale_numeric" -> ValidateScaleNumeric(prof, params, prefix)
                   [] op = "encode_categorical" -> ValidateEncodeCategorical(prof, params, prefix)
                   [] op = "sort_by" -> ValidateSortBy(prof, params, prefix)
                   [] OTHER -> <<>>

\* the order check without its branch for the list-valued kinds (mutation of
\* OrderErrorsOfStep)
OrderErrorsOfStepScalarOnly(step, index, dropped_columns) ==
    LET op == step["op"]
        params == Get(step, "params", <<>>)
    IN  IF op \in {"fill_missing", "remove_outliers", "sort_by"}
           /\ Get(params, "column", None) \in dropped_columns
        THEN <<Err(index + 1, "References dropped column", Get(params, "column", None))>>
        ELSE <<>>

\* the messages one step adds in _validate_step_order, given the columns
\* dropped so far
OrderErrorsOfStep(step, index, dropped_columns) ==
    LET op == step["op"]
        params == Get(step, "params", <<>>)
    IN  IF op \in {"fill_missing", "remove_outliers", "sort_by"}
        THEN (IF Get(params, "column", None) \in dropped_columns
              THEN <<Err(index + 1, "References dropped column", Get(params, "column", None))>>
              ELSE <<>>)
        ELSE IF op \in {"scale_numeric", "encode_categorical"}
        THEN LET cols == Get(params, "columns", <<>>)
             IN  Concat([n \in 1..Len(cols) |->
                           IF cols[n] \in dropped_columns
                           THEN <<Err(index + 1, "References dropped column", cols[n])>>
                           ELSE <<>>])
        ELSE <<>>

\* every column of the step counted as dropped, whatever the step's kind
\* (mutation of DroppedAfter)
DroppedAfterAnyKind(step, dropped_columns) ==
    dropped_columns
    \cup Range(Get(Get(step, "params", <<>>), "columns", <<>>))
    \cup (IF "column" \in DOMAIN Get(step, "params", <<>>)
          THEN {Get(step, "params", <<>>)["column"]} ELSE {})

\* dropped_columns after the step
DroppedAfter(step, dropped_columns) ==
    IF step["op"] = "drop_columns"
    THEN dropped_columns \cup Range(Get(Get(step, "params", <<>>), "columns", <<>>))
    ELSE dropped_columns

\* the loop of _validate_step_order from position index on; step["op"] of a
\* step without 'op' raises KeyError
RECURSIVE StepOrderFrom(_, _, _)
StepOrderFrom(steps, index, dropped_columns) ==
    IF index >= Len(steps) THEN [raised |-> FALSE, errors |-> <<>>]
    ELSE LET step == steps[index + 1]
         IN  IF "op" \notin DOMAIN step
             THEN [raised |-> TRUE, errors |-> <<>>]
             ELSE LET rest == StepOrderFrom(steps, index + 1,
                                            DroppedAfter(step, dropped_columns))
                  IN  [raised |-> rest.raised,
                       errors |-> OrderErrorsOfStep(step, index, dropped_columns)
                                  \o rest.errors]

\* _validate_step_order(steps)
ValidateStepOrder(steps) == StepOrderFrom(steps, 0, {})

\* an early return that reports the plan valid (mutation of StructuralReject)
StructuralRejectAsValid(msg) ==
    [raised |-> FALSE, is_valid |-> TRUE, errors |-> <<Err(0, msg, None)>>]

\* the two structural early returns of validate
StructuralReject(msg) ==
    [raised |-> FALSE, is_valid |-> FALSE, errors |-> <<Err(0, msg, None)>>]

\* validate(plan): what it returns, or that it raised
Validate(prof, p) ==
    IF "steps" \notin DOMAIN p
    THEN StructuralReject("Plan must contain 'steps' field")
    ELSE IF p["steps"].type # "list"
    THEN StructuralReject("'steps' must be a list")
    ELSE LET steps == p["steps"].items
             step_errors == Concat([n \in 1..Len(steps) |->
                                      ValidateStep(prof, steps[n], n - 1)])
             order == ValidateStepOrder(steps)
             errors == step_errors \o order.errors
         IN  IF order.raised
             THEN [raised |-> TRUE, is_valid |-> FALSE, errors |-> <<>>]
             ELSE [raised |-> FALSE, is_valid |-> Len(errors) = 0, errors |-> errors]

---------------------------------------------------------------------------
(* PipelineExecutor.execute *)

\* an unknown operation reported as an error (mutation of SkippedEntry)
SkippedEntryAsFailed(index, op_name) ==
    [step |-> index + 1, operation |-> op_name, status |-> "failed",
     error |-> op_name]

SkippedEntry(index, op_name) ==
    [step |-> index + 1, operation |-> op_name, status |-> "skipped",
     reason |-> op_name]

\* a success entry that records the shape before the call as after_shape
\* (mutation of SuccessEntry)
SuccessEntryStaleShape(index, op_name, params, before_shape, after_shape) ==
    [step |-> index + 1, operation |-> op_name, params |-> params,
     status |-> "success",
     before_shape |-> before_shape, after_shape |-> before_shape,
     rows_changed |-> before_shape[1] - after_shape[1],
     columns_changed |-> after_shape[2] - before_shape[2]]

SuccessEntry(index, op_name, params, before_shape, after_shape) ==
    [step |-> index + 1, operation |-> op_name, params |-> params,
     status |-> "success",
     before_shape |-> before_shape, after_shape |-> after_shape,
     rows_changed |-> before_shape[1] - after_shape[1],
     columns_changed |-> after_shape[2] - before_shape[2]]

FailedEntry(index, op_name, error) ==
    [step |-> index + 1, operation |-> op_name, status |-> "failed",
     error |-> error]

\* the except clause leaving the loop (mutation of ContinueAfterFailed)
BreakAfterFailed(index, n) == n

\* the for loop goes on with the next step after the except clause
ContinueAfterFailed(index, n) == index + 1

CountStatus(log, status) ==
    Cardinality({n \in 1..Len(log) : log[n].status = status})

\* _generate_summary with the subtraction of rows_removed the other way round
\* (mutation of GenerateSummary)
GenerateSummarySignFlipped(original_shape, final_shape, log) ==
    LET rows_removed == final_shape[1] - original_shape[1]
    IN  [original_shape |-> original_shape,
         final_shape |-> final_shape,
         rows_removed |-> rows_removed,
         rows_removed_percent |->
            IF original_shape[1] > 0
            THEN [num |-> rows_removed * 100, den |-> original_shape[1]]
            ELSE [num |-> 0, den |-> 1],
         columns_added |-> final_shape[2] - original_shape[2],
         total_steps |-> Len(log),
         successful_steps |-> CountStatus(log, "success"),
         failed_steps |-> CountStatus(log, "failed"),
         skipped_steps |-> CountStatus(log, "skipped")]

\* _generate_summary; the percentage is kept as the fraction num/den
GenerateSummary(original_shape, final_shape, log) ==
    LET rows_removed == original_shape[1] - final_shape[1]
    IN  [original_shape |-> original_shape,
         final_shape |-> final_shape,
         rows_removed |-> rows_removed,
         rows_removed_percent |->
            IF original_shape[1] > 0
            THEN [num |-> rows_removed * 100, den |-> original_shape[1]]
            ELSE [num |-> 0, den |-> 1],
         columns_added |-> final_shape[2] - original_shape[2],
         total_steps |-> Len(log),
         successful_steps |-> CountStatus(log, "success"),
         failed_steps |-> CountStatus(log, "failed"),
         skipped_steps |-> CountStatus(log, "skipped")]

\* plan.get("steps", [])
Steps(p) == IF "steps" \in DOMAIN p THEN p["steps"].items ELSE <<>>

NoResult == [returned |-> FALSE]

---------------------------------------------------------------------------
(* Inputs *)

Columns == {"A", "B"}

\* what DatasetProfiler._infer_type can return for a column of the dataset
InferType(d, col) ==
    IF d.rows = 0 THEN {"identifier"}
    ELSE IF IsNumericDtype(d, col)
    THEN {"identifier", "categorical_numeric"}
         \cup (IF d.rows > 10 THEN {"numeric"} ELSE {})
    ELSE {"identifier", "categorical", "text"}

\* an empty frame or one of MaxRows rows (shorter frames arise from the row
\* filters); column A is numeric or not, column B is not
Datasets ==
    {[rows |-> n, columns |-> Columns, numeric |-> num, cells |-> <<>>] :
        n \in {0, MaxRows}, num \in {{}, {"A"}}}

\* profiles of d: a column that is not numeric is profiled categorical
\* whenever it can be, a numeric one as any type _infer_type can give it
Profiles(d) ==
    {[column_names |-> d.columns,
      inferred_type |-> [c \in d.columns |->
                            IF c = "A" /\ IsNumericDtype(d, c) THEN tA
                            ELSE IF "categorical" \in InferType(d, c)
                                 THEN "categorical" ELSE "identifier"]] :
        tA \in InferType(d, "A") \ {"text", "categorical"}}

Step(op, params) == [op |-> op, params |-> params]

StepPool ==
    {Step("drop_columns", [columns |-> <<"A">>]),
     Step("drop_columns", [columns |-> <<"A", "ghost">>]),
     Step("fill_missing", [column |-> "A", strategy |-> "median"]),
     Step("fill_missing", [column |-> "A", strategy |-> "constant"]),
     Step("sort_by", [column |-> "A"]),
     Step("scale_numeric", [columns |-> <<"A">>]),
     Step("encode_categorical", [columns |-> <<"A">>]),
     Step("remove_outliers", [column |-> "A"]),
     Step("handle_missing_rows", <<>>),
     [op |-> "impute_knn"],
     [params |-> <<>>]}

StepLists == UNION {[1..n -> StepPool] : n \in 0..MaxSteps}

Plans ==
    {[steps |-> [type |-> "list", items |-> s]] : s \in StepLists}
    \cup {[steps |-> [type |-> "str", items |-> <<>>]],
          [reasoning |-> "none"]}

---------------------------------------------------------------------------
(* Behaviour *)

Init ==
    /\ df \in Datasets
    /\ profile \in Profiles(df)
    /\ plan \in Plans
    /\ pc = "start"
    /\ vres = NoResult
    /\ i = 0
    /\ current_df = df
    /\ execution_log = <<>>
    /\ seen = <<>>
    /\ result = NoResult
    /\ df_before = df
    /\ obj = CallerObject
    /\ sample_df = df
    /\ history = <<>>
    /\ session = <<>>
    /\ response = NoResult

\* validator.validate(plan)
DoValidate ==
    /\ pc = "start"
    /\ vres' = [returned |-> TRUE] @@ Validate(profile, plan)
    /\ pc' = "validated"
    /\ UNCHANGED <<session, response, df, profile, plan, i, current_df, execution_log, seen, result,
                   df_before, obj, sample_df, history>>

\* execute, lines 50-54: the log is empty and current_df is a copy of df
\* (a plan whose 'steps' is not a list is not executed)
ExecEnter ==
    /\ "steps" \in DOMAIN plan => plan["steps"].type = "list"
    /\ execution_log' = <<>>
    /\ current_df' = df
    /\ obj' = DataFrameCopy(CallerObject)
    /\ i' = 0
    /\ seen' = <<>>
    /\ pc' = "loop"

\* execute called once validate is over
ExecBegin ==
    /\ pc = "validated"
    /\ ExecEnter
    /\ UNCHANGED <<session, response, df, profile, plan, vres, result, df_before, sample_df, history>>

\* loop body, op_name not in self.operations
ExecStepSkipped ==
    /\ pc = "loop"
    /\ i < Len(Steps(plan))
    /\ LET step == Steps(plan)[i + 1]
           op_name == Get(step, "op", None)
       IN  /\ op_name \notin Registry
           /\ execution_log' = Append(execution_log, SkippedEntry(i, op_name))
    /\ seen' = Append(seen, current_df)
    /\ i' = i + 1
    /\ UNCHANGED <<session, response, df, profile, plan, pc, vres, current_df, result,
                   df_before, obj, sample_df, history>>

\* loop body, the operation returns
ExecStepSuccess ==
    /\ pc = "loop"
    /\ i < Len(Steps(plan))
    /\ LET step == Steps(plan)[i + 1]
           op_name == Get(step, "op", None)
           params == Get(step, "params", <<>>)
       IN  /\ op_name \in Registry
           /\ \E out \in Operation(op_name, current_df, params) :
                /\ ~out.raised
                /\ current_df' = out.df
                /\ execution_log' =
                     Append(execution_log,
                            SuccessEntry(i, op_name, params,
                                         Shape(current_df), Shape(out.df)))
           /\ obj' = ResultObject(op_name, current_df, params, obj, i)
    /\ seen' = Append(seen, current_df)
    /\ i' = i + 1
    /\ UNCHANGED <<session, response, df, profile, plan, pc, vres, result, df_before, sample_df, history>>

\* loop body, the operation raises: current_df still names the object that
\* was passed to it, as the call left it; so does df when it is that object
ExecStepFailed ==
    /\ pc = "loop"
    /\ i < Len(Steps(plan))
    /\ LET step == Steps(plan)[i + 1]
           op_name == Get(step, "op", None)
           params == Get(step, "params", <<>>)
       IN  /\ op_name \in Registry
           /\ \E out \in Operation(op_name, current_df, params) :
                /\ out.raised
                /\ current_df' = out.df
                /\ df' = IF obj = CallerObject THEN out.df ELSE df
                /\ execution_log' =
                     Append(execution_log, FailedEntry(i, op_name, out.error))
    /\ seen' = Append(seen, current_df)
    /\ i' = ContinueAfterFailed(i, Len(Steps(plan)))
    /\ UNCHANGED <<session, response, profile, plan, pc, vres, result, df_before, obj, sample_df, history>>

\* execute, lines 99-106 (processed_object: which object processed_df is)
ExecFinish ==
    /\ pc = "loop"
    /\ i >= Len(Steps(plan))
    /\ result' = [returned |-> TRUE,
                  processed_df |-> current_df,
                  processed_object |-> obj,
                  execution_log |-> execution_log,
                  summary |-> GenerateSummary(Shape(df), Shape(current_df),
                                              execution_log)]
    /\ pc' = "done"
    /\ UNCHANGED <<session, response, df, profile, plan, vres, i, current_df, execution_log, seen,
                   df_before, obj, sample_df, history>>

Next ==
    \/ DoValidate
    \/ ExecBegin
    \/ ExecStepSkipped
    \/ ExecStepSuccess
    \/ ExecStepFailed
    \/ ExecFinish

Spec == Init /\ [][Next]_vars

---------------------------------------------------------------------------
(* PipelineExecutor.dry_run *)

\* min(1000, len(df))
SampleLimit == 1000

SampleSize(d) == IF d.rows < SampleLimit THEN d.rows ELSE SampleLimit

UnknownImpact(index, op_name) ==
    [step |-> index + 1, operation |-> op_name, impact |-> "unknown",
     reason |-> "Unknown operation"]

\* impact_percent is kept as the fraction num/den
SuccessImpact(index, op_name, before_shape, after_shape) ==
    [step |-> index + 1, operation |-> op_name,
     estimated_rows_affected |-> before_shape[1] - after_shape[1],
     estimated_columns_affected |-> after_shape[2] - before_shape[2],
     impact_percent |->
        IF before_shape[1] > 0
        THEN [num |-> (before_shape[1] - after_shape[1]) * 100, den |-> before_shape[1]]
        ELSE [num |-> 0, den |-> 1]]

ErrorImpact(index, op_name, error) ==
    [step |-> index + 1, operation |-> op_name, impact |-> "error",
     error |-> error]

\* Python floats are IEEE 754 doubles: 53 significant binary digits, each
\* operation rounded to the nearest double, ties to the even one.  A double
\* is held as its 53 digits (most significant first) and the exponent of the
\* first digit; zero is [m |-> <<>>, e |-> 0].
DoubleDigits == 53

\* the binary digits of a natural number, most significant first
RECURSIVE Binary(_)
Binary(n) == IF n = 0 THEN <<>> ELSE Append(Binary(n \div 2), n % 2)

RECURSIVE FromBinary(_)
FromBinary(bits) ==
    IF bits = <<>> THEN 0
    ELSE 2 * FromBinary(SubSeq(bits, 1, Len(bits) - 1)) + bits[Len(bits)]

\* the digits of the quotient continued by long division of the remainder r
\* by n until there are `want` of them
RECURSIVE LongDivision(_, _, _, _)
LongDivision(bits, r, n, want) ==
    IF Len(bits) >= want THEN [bits |-> bits, rem |-> r]
    ELSE LongDivision(Append(bits, IF 2 * r >= n THEN 1 ELSE 0),
                      IF 2 * r >= n THEN 2 * r - n ELSE 2 * r, n, want)

\* the digit string plus one (one digit longer when every digit is 1)
RECURSIVE Increment(_)
Increment(bits) ==
    IF bits = <<>> THEN <<1>>
    ELSE IF bits[Len(bits)] = 0 THEN [bits EXCEPT ![Len(bits)] = 1]
    ELSE Append(Increment(SubSeq(bits, 1, Len(bits) - 1)), 0)

\* the double nearest to the number whose digits are `bits` (first digit 1,
\* of exponent e) followed by something nonzero iff `sticky`
RoundToDouble(bits, e, sticky) ==
    IF Len(bits) <= DoubleDigits
    THEN [m |-> bits \o [k \in 1..(DoubleDigits - Len(bits)) |-> 0], e |-> e]
    ELSE LET top == SubSeq(bits, 1, DoubleDigits)
             guard == bits[DoubleDigits + 1]
             rest == sticky \/ \E j \in (DoubleDigits + 2)..Len(bits) : bits[j] = 1
             up == guard = 1 /\ (rest \/ top[DoubleDigits] = 1)
             inc == IF up THEN Increment(top) ELSE top
         IN  IF Len(inc) > DoubleDigits
             THEN [m |-> SubSeq(inc, 1, DoubleDigits), e |-> e + 1]
             ELSE [m |-> inc, e |-> e]

\* the least s with k * 2^s >= n
RECURSIVE ShiftUntil(_, _)
ShiftUntil(k, n) == IF k >= n THEN 0 ELSE 1 + ShiftUntil(2 * k, n)

RECURSIVE Pow2(_)
Pow2(s) == IF s = 0 THEN 1 ELSE 2 * Pow2(s - 1)

\* k / n of two ints, k >= 0, n > 0 (true division)
TrueDiv(k, n) ==
    IF k = 0 THEN [m |-> <<>>, e |-> 0]
    ELSE LET s == ShiftUntil(k, n)
             scaled == k * Pow2(s)
             whole == Binary(scaled \div n)
             q == LongDivision(whole, scaled % n, n, DoubleDigits + 1)
         IN  RoundToDouble(q.bits, Len(whole) - 1 - s, q.rem # 0)

\* the digits of (the number with digits `bits`) * a: `done` are the digits
\* of the product to the right of position pos, `carry` what they carry over
RECURSIVE TimesInt(_, _, _, _, _)
TimesInt(bits, a, pos, carry, done) ==
    IF pos = 0 THEN Binary(carry) \o done
    ELSE TimesInt(bits, a, pos - 1, (bits[pos] * a + carry) \div 2,
                  <<(bits[pos] * a + carry) % 2>> \o done)

\* a * x, of an int a >= 0 (converted exactly) and a double x >= 0
IntTimesDouble(a, x) ==
    IF a = 0 \/ x.m = <<>> THEN [m |-> <<>>, e |-> 0]
    ELSE LET product == TimesInt(x.m, a, Len(x.m), 0, <<>>)
         IN  RoundToDouble(product, x.e + Len(product) - DoubleDigits, FALSE)

\* int(x) of a double x >= 0 below 2^31: truncation
IntOf(x) ==
    IF x.m = <<>> \/ x.e < 0 THEN 0
    ELSE FromBinary(SubSeq(x.m, 1, x.e + 1))

\* int(df.shape[0] * (current_df.shape[0] / sample_df.shape[0]))
EstimatedRows(df_rows, current_rows, sample_rows) ==
    IntOf(IntTimesDouble(df_rows, TrueDiv(current_rows, sample_rows)))

\* random_state=42
RandomState == 42

\* the rows of d at the n positions that follow `offset` in a rotation of d,
\* under their index labels (a frame that does not carry its cell values
\* keeps only the count)
Rotation(d, n, offset) ==
    IF "data" \in DOMAIN d
    THEN [d EXCEPT !.rows = n,
                   !.index = [k \in 1..n |-> d.index[((offset + k - 1) % d.rows) + 1]],
                   !.data = [k \in 1..n |-> d.data[((offset + k - 1) % d.rows) + 1]]]
    ELSE [d EXCEPT !.rows = n]

\* a sample that the seed does not fix: one of two draws (mutation of Sample)
SampleUnseeded(d, n, random_state) ==
    {Rotation(d, n, offset) : offset \in {0, random_state}}

\* df.sample(n=n, random_state=random_state) for n < len(df): n positions
\* drawn without replacement.  The draw is a function of the seed and of
\* len(df) alone; its values are not computed here, the rotation by the seed
\* stands for it
Sample(d, n, random_state) ==
    {Rotation(d, n, random_state)}

\* dry_run, lines 159-166: the sample (or a copy of df), then a copy of it.
\* The log of the call is kept in execution_log (impact_log in the source).
DryEnter ==
    /\ "steps" \in DOMAIN plan => plan["steps"].type = "list"
    /\ LET sample_size == SampleSize(df)
       IN  /\ \E s \in (IF df.rows > sample_size
                        THEN Sample(df, sample_size, RandomState)
                        ELSE {df}) :
                 /\ sample_df' = s
                 /\ current_df' = s
           /\ obj' = IF df.rows > sample_size
                     THEN DataFrameCopy(DataFrameSample(CallerObject))
                     ELSE DataFrameCopy(DataFrameCopy(CallerObject))
    /\ execution_log' = <<>>
    /\ i' = 0
    /\ seen' = <<>>
    /\ pc' = "dry_loop"

\* loop body of dry_run, op_name not in self.operations
DryStepUnknown ==
    /\ pc = "dry_loop"
    /\ i < Len(Steps(plan))
    /\ LET step == Steps(plan)[i + 1]
           op_name == Get(step, "op", None)
       IN  /\ op_name \notin Registry
           /\ execution_log' = Append(execution_log, UnknownImpact(i, op_name))
    /\ seen' = Append(seen, current_df)
    /\ i' = i + 1
    /\ UNCHANGED <<session, response, df, profile, plan, pc, vres, current_df, result,
                   df_before, obj, sample_df, history>>

\* loop body of dry_run, the operation returns
DryStepSuccess ==
    /\ pc = "dry_loop"
    /\ i < Len(Steps(plan))
    /\ LET step == Steps(plan)[i + 1]
           op_name == Get(step, "op", None)
           params == Get(step, "params", <<>>)
       IN  /\ op_name \in Registry
           /\ \E out \in Operation(op_name, current_df, params) :
                /\ ~out.raised
                /\ current_df' = out.df
                /\ execution_log' =
                     Append(execution_log,
                            SuccessImpact(i, op_name, Shape(current_df), Shape(out.df)))
           /\ obj' = ResultObject(op_name, current_df, params, obj, i)
    /\ seen' = Append(seen, current_df)
    /\ i' = i + 1
    /\ UNCHANGED <<session, response, df, profile, plan, pc, vres, result, df_before, sample_df, history>>

\* loop body of dry_run, the operation raises
DryStepFailed ==
    /\ pc = "dry_loop"
    /\ i < Len(Steps(plan))
    /\ LET step == Steps(plan)[i + 1]
           op_name == Get(step, "op", None)
           params == Get(step, "params", <<>>)
       IN  /\ op_name \in Registry
           /\ \E out \in Operation(op_name, current_df, params) :
                /\ out.raised
                /\ current_df' = out.df
                /\ df' = IF obj = CallerObject THEN out.df ELSE df
                /\ execution_log' =
                     Append(execution_log, ErrorImpact(i, op_name, out.error))
    /\ seen' = Append(seen, current_df)
    /\ i' = i + 1
    /\ UNCHANGED <<session, response, profile, plan, pc, vres, result, df_before, obj, sample_df, history>>

\* dry_run, lines 203-210: the division by sample_df.shape[0] raises
\* ZeroDivisionError for an empty sample
DryFinish ==
    /\ pc = "dry_loop"
    /\ i >= Len(Steps(plan))
    /\ result' =
         IF sample_df.rows = 0
         THEN [returned |-> FALSE, raised |-> "ZeroDivisionError"]
         ELSE [returned |-> TRUE,
               sample_size |-> SampleSize(df),
               estimated_impact |-> execution_log,
               estimated_final_shape |->
                  <<EstimatedRows(df.rows, current_df.rows, sample_df.rows),
                    Cardinality(current_df.columns)>>]
    /\ pc' = "dry_done"
    /\ UNCHANGED <<session, response, df, profile, plan, vres, i, current_df, execution_log, seen,
                   df_before, obj, sample_df, history>>

---------------------------------------------------------------------------
(* Calls of execute and dry_run on one stored dataset, the way the /execute  *)
(* and /dry-run routes make them: each request reads the session's df and   *)
(* hands it to a new PipelineExecutor.                                      *)

CallSteps ==
    {Step("drop_columns", [columns |-> <<"A">>]),
     Step("fill_missing", [column |-> "A", strategy |-> "median"]),
     Step("fill_missing", [column |-> "A", strategy |-> "constant"]),
     Step("remove_outliers", [column |-> "A"]),
     [op |-> "impute_knn"]}

CallPlans ==
    {[steps |-> [type |-> "list", items |-> s]] :
        s \in UNION {[1..n -> CallSteps] : n \in 0..MaxSteps}}

InitCalls ==
    /\ df \in Datasets
    /\ profile \in Profiles(df)
    /\ plan \in CallPlans
    /\ pc = "start"
    /\ vres = NoResult
    /\ i = 0
    /\ current_df = df
    /\ execution_log = <<>>
    /\ seen = <<>>
    /\ result = NoResult
    /\ df_before = df
    /\ obj = CallerObject
    /\ sample_df = df
    /\ history = <<>>
    /\ session = <<>>
    /\ response = NoResult

\* executor.execute(df, plan)
CallExecute ==
    /\ pc = "start"
    /\ ExecEnter
    /\ UNCHANGED <<session, response, df, profile, plan, vres, result, df_before, sample_df, history>>

\* executor.dry_run(df, plan)
CallDryRun ==
    /\ pc = "start"
    /\ DryEnter
    /\ UNCHANGED <<session, response, df, profile, plan, vres, result, df_before, history>>

\* the call is over and a second call is made with the same arguments
CallAgain ==
    /\ pc \in {"done", "dry_done"}
    /\ history = <<>>
    /\ history' = <<[call |-> pc, result |-> result, seen |-> seen]>>
    /\ pc' = "start"
    /\ UNCHANGED <<session, response, df, profile, plan, vres, i, current_df, execution_log, seen,
                   result, df_before, obj, sample_df>>

\* the frame the earlier execute held once its step k was over
EarlierAfter(k) ==
    IF k < Len(history[1].seen) THEN history[1].seen[k + 1]
    ELSE history[1].result.processed_df

\* a transform is a function of its arguments: a step of a second execute
\* that receives the frame the first execute's step received ends the same way
Replayed ==
    (pc = "loop" /\ history # <<>> /\ history[1].call = "done") =>
        \A k \in 1..Len(execution_log) :
            seen[k] = history[1].seen[k] =>
                /\ execution_log[k] = history[1].result.execution_log[k]
                /\ (IF k < Len(seen) THEN seen[k + 1] ELSE current_df)
                      = EarlierAfter(k)

NextCalls ==
    \/ CallExecute
    \/ ExecStepSkipped /\ Replayed'
    \/ ExecStepSuccess /\ Replayed'
    \/ ExecStepFailed /\ Replayed'
    \/ ExecFinish
    \/ CallDryRun
    \/ DryStepUnknown
    \/ DryStepSuccess
    \/ DryStepFailed
    \/ DryFinish
    \/ CallAgain

SpecCalls == InitCalls /\ [][NextCalls]_vars

---------------------------------------------------------------------------
(* PipelineExecutor.execute_single_step, called on the stored dataset for a *)
(* step of a plan that execute has run before.                              *)

\* an unknown operation handed back as a no-op (mutation of SingleStepUnknown)
SingleStepUnknownPassThrough(d, op_name) ==
    [returned |-> TRUE, df |-> d, object |-> CallerObject]

\* raise ValueError(f"Unknown operation: {op_name}")
SingleStepUnknown(d, op_name) ==
    [returned |-> FALSE, raised |-> "ValueError"]

\* what the call hands back for an outcome of operation(df, params): the
\* frame returned, or the exception, which nothing catches
SingleStepResult(op_name, d, params, out) ==
    IF out.raised THEN [returned |-> FALSE, raised |-> out.error]
    ELSE [returned |-> TRUE, df |-> out.df,
          object |-> ResultObject(op_name, d, params, CallerObject, 0)]

\* a transform is a function of its arguments: given the frame step k of the
\* earlier execute received, it ends the way it ended there
SameAsEarlier(k, d, out) ==
    d = history[1].seen[k] =>
        LET entry == history[1].result.execution_log[k]
        IN  CASE entry.status = "failed" ->
                    out.raised /\ out.error = entry.error
              [] entry.status = "success" ->
                    ~out.raised /\ out.df = EarlierAfter(k)
              [] OTHER -> TRUE

\* execute_single_step(df, step) for step k of the plan; the transform is
\* given the caller's object itself
ExecuteSingleStep ==
    /\ pc = "start"
    /\ history # <<>>
    /\ \E k \in 1..Len(Steps(plan)) :
         LET step == Steps(plan)[k]
             op_name == Get(step, "op", None)
             params == Get(step, "params", <<>>)
         IN  IF op_name \notin Registry
             THEN /\ result' = [step |-> k] @@ SingleStepUnknown(df, op_name)
                  /\ df' = df
             ELSE \E out \in Operation(op_name, df, params) :
                    /\ SameAsEarlier(k, df, out)
                    /\ result' = [step |-> k]
                                   @@ SingleStepResult(op_name, df, params, out)
                    /\ df' = IF out.raised THEN out.df ELSE df
    /\ pc' = "single_done"
    /\ UNCHANGED <<session, response, profile, plan, vres, i, current_df, execution_log, seen,
                   df_before, obj, sample_df, history>>

NextSingle ==
    \/ CallExecute
    \/ ExecStepSkipped
    \/ ExecStepSuccess
    \/ ExecStepFailed
    \/ ExecFinish
    \/ CallAgain
    \/ ExecuteSingleStep

SpecSingle == InitCalls /\ [][NextSingle]_vars

---------------------------------------------------------------------------
(* The /execute route (execute_pipeline) on one session: validate, then     *)
(* execute, then store.  `session` holds the entries of the session the      *)
(* routes write (plan, processed_df, execution_result, report); its df and  *)
(* profile are the variables df and profile.                                *)

\* the plans a request carries
RoutePlans ==
    {[steps |-> [type |-> "list", items |-> s]] :
        s \in {<<>>,
               <<Step("drop_columns", [columns |-> <<"A">>])>>,
               <<Step("fill_missing", [column |-> "A", strategy |-> "constant"])>>,
               <<Step("sort_by", [column |-> "ghost"])>>,
               <<Step("drop_columns", [columns |-> <<"A">>]),
                 Step("sort_by", [column |-> "A"])>>,
               <<Step("handle_missing_rows", <<>>)>>,
               <<[params |-> <<>>]>>}}
    \cup {[steps |-> [type |-> "str", items |-> <<>>]]}

\* a plan the /plan route stored after validate accepted it
StoredPlan ==
    [steps |-> [type |-> "list",
                items |-> <<Step("drop_columns", [columns |-> <<"A">>])>>]]

\* PrepReportGenerator.generate_full_report(profile, plan, result, purpose):
\* the parts of the report that come from the plan and the result
Report(p, res) ==
    [total_steps |-> Len(Steps(p)), summary |-> res.summary]

InitRoute ==
    /\ df \in Datasets
    /\ profile \in Profiles(df)
    /\ plan = <<>>
    /\ pc = "idle"
    /\ vres = NoResult
    /\ i = 0
    /\ current_df = df
    /\ execution_log = <<>>
    /\ seen = <<>>
    /\ result = NoResult
    /\ df_before = df
    /\ obj = CallerObject
    /\ sample_df = df
    /\ history = <<>>
    /\ session \in {<<>>, [plan |-> StoredPlan]}
    /\ response = NoResult

\* execute_pipeline, lines 400-415: the plan of the request, or the stored
\* plan when the request carries none (<<>>: None or an empty mapping);
\* history keeps the session as it was when the request arrived
RouteRequest ==
    /\ pc \in {"idle", "responded"}
    /\ Len(history) < MaxRequests
    /\ history' = Append(history, [session |-> session])
    /\ \E req \in RoutePlans \cup {<<>>} :
         LET chosen == IF DOMAIN req = {} THEN Get(session, "plan", <<>>) ELSE req
         IN  /\ plan' = chosen
             /\ IF DOMAIN chosen = {}
                THEN /\ response' = [returned |-> TRUE, status |-> 400,
                                     error |-> "No plan available"]
                     /\ pc' = "responded"
                ELSE /\ response' = NoResult
                     /\ pc' = "start"
    /\ vres' = NoResult
    /\ result' = NoResult
    /\ execution_log' = <<>>
    /\ seen' = <<>>
    /\ i' = 0
    /\ current_df' = df
    /\ obj' = CallerObject
    /\ UNCHANGED <<df, profile, df_before, sample_df, session>>

\* lines 425-429, and the except of line 453 when validate raised
RouteReject ==
    /\ pc = "validated"
    /\ vres.raised \/ ~vres.is_valid
    /\ response' = IF vres.raised
                   THEN [returned |-> TRUE, status |-> 500,
                         error |-> "Execution failed"]
                   ELSE [returned |-> TRUE, status |-> 400,
                         error |-> "Invalid plan",
                         validation_errors |-> vres.errors]
    /\ pc' = "responded"
    /\ UNCHANGED <<df, profile, plan, vres, i, current_df, execution_log, seen,
                   result, df_before, obj, sample_df, history, session>>

\* lines 431-433: executor.execute(df, plan) (a 'steps' that is not a list
\* has been rejected by validate)
RouteExecute ==
    /\ pc = "validated"
    /\ ~vres.raised /\ vres.is_valid
    /\ ExecEnter
    /\ UNCHANGED <<df, profile, plan, vres, result, df_before, sample_df, history,
                   session, response>>

\* lines 435-451: store the result and the report, respond
RouteStore ==
    /\ pc = "done"
    /\ session' = [processed_df |-> result.processed_df,
                   execution_result |-> result,
                   report |-> Report(plan, result)] @@ session
    /\ response' = [returned |-> TRUE, status |-> 200,
                    execution_log |-> result.execution_log,
                    summary |-> result.summary,
                    report |-> Report(plan, result)]
    /\ pc' = "responded"
    /\ UNCHANGED <<df, profile, plan, vres, i, current_df, execution_log, seen,
                   result, df_before, obj, sample_df, history>>

\* (the loop's skip branch is left out: every op validate accepts is
\* registered, see SkipNeverEnabledInRoute)
NextRoute ==
    \/ RouteRequest
    \/ DoValidate
    \/ RouteReject
    \/ RouteExecute
    \/ ExecStepSuccess
    \/ ExecStepFailed
    \/ ExecFinish
    \/ RouteStore

SpecRoute == InitRoute /\ [][NextRoute]_vars

---------------------------------------------------------------------------
(* validate on plans with malformed steps: a step without 'op', steps        *)
(* without their required parameter, steps with several errors.             *)

ValidateSteps ==
    {[params |-> <<>>],
     [op |-> "fill_missing"],
     Step("drop_columns", <<>>),
     Step("sort_by", [column |-> "ghost"]),
     Step("drop_columns", [columns |-> <<"A">>]),
     Step("scale_numeric", [columns |-> <<"A", "B">>]),
     Step("fill_missing", [column |-> "A", strategy |-> "median"])}

ValidatePlans ==
    {[steps |-> [type |-> "list", items |-> s]] :
        s \in UNION {[1..n -> ValidateSteps] : n \in 0..MaxSteps}}

InitValidate ==
    /\ df \in Datasets
    /\ profile \in Profiles(df)
    /\ plan \in ValidatePlans
    /\ pc = "start"
    /\ vres = NoResult
    /\ i = 0
    /\ current_df = df
    /\ execution_log = <<>>
    /\ seen = <<>>
    /\ result = NoResult
    /\ df_before = df
    /\ obj = CallerObject
    /\ sample_df = df
    /\ history = <<>>
    /\ session = <<>>
    /\ response = NoResult

NextValidate == DoValidate

SpecValidate == InitValidate /\ [][NextValidate]_vars

---------------------------------------------------------------------------
(* execute of two consecutive drop_duplicates steps on frames that carry     *)
(* their cell values.                                                       *)

DedupRows == 3

CellValues == {0, 1}

ValuedFrames ==
    {[rows |-> n, columns |-> Columns, numeric |-> Columns, cells |-> <<>>,
      index |-> [k \in 1..n |-> k - 1], data |-> rowdata] :
        n \in 0..DedupRows,
        rowdata \in UNION {[1..m -> [Columns -> CellValues]] : m \in 0..DedupRows}}

DedupParams ==
    {[keep |-> k] : k \in {"first", "last", "False"}}
    \cup {[subset |-> sub, keep |-> k] :
            sub \in {<<"A">>, <<"A", "B">>, <<"ghost">>},
            k \in {"first", "last", "False"}}
    \cup {<<>>}

InitDedup ==
    /\ df \in {f \in ValuedFrames : Len(f.data) = f.rows}
    /\ profile \in {[column_names |-> Columns,
                     inferred_type |-> [c \in Columns |-> "categorical_numeric"]]}
    /\ plan \in {[steps |-> [type |-> "list",
                             items |-> <<Step("drop_duplicates", p),
                                         Step("drop_duplicates", p)>>]] :
                    p \in DedupParams}
    /\ pc = "start"
    /\ vres = NoResult
    /\ i = 0
    /\ current_df = df
    /\ execution_log = <<>>
    /\ seen = <<>>
    /\ result = NoResult
    /\ df_before = df
    /\ obj = CallerObject
    /\ sample_df = df
    /\ history = <<>>
    /\ session = <<>>
    /\ response = NoResult

NextDedup ==
    \/ CallExecute
    \/ ExecStepSuccess
    \/ ExecStepFailed
    \/ ExecFinish

SpecDedup == InitDedup /\ [][NextDedup]_vars

---------------------------------------------------------------------------
(* The end-to-end example: a dataset of 100 rows with the columns id, age   *)
(* and score, id fully unique, age profiled numeric, and the plan           *)
(* [drop_columns([id]), fill_missing(age, median)].  The dtypes of the      *)
(* columns and the profiled type of score are left open.                    *)

ExampleColumns == {"id", "age", "score"}

ExampleDatasets ==
    {[rows |-> 100, columns |-> ExampleColumns, numeric |-> num, cells |-> <<>>] :
        num \in SUBSET ExampleColumns}

ExampleProfiles ==
    {[column_names |-> ExampleColumns,
      inferred_type |-> [c \in ExampleColumns |->
                            CASE c = "id" -> "identifier"
                              [] c = "age" -> tAge
                              [] c = "score" -> tScore]] :
        tAge \in NUMERIC_TYPES,
        tScore \in {"numeric", "categorical_numeric", "categorical", "text",
                    "identifier"}}

ExamplePlan ==
    [steps |-> [type |-> "list",
                items |-> <<Step("drop_columns", [columns |-> <<"id">>]),
                            Step("fill_missing",
                                 [column |-> "age", strategy |-> "median"])>>]]

InitExample ==
    /\ df \in ExampleDatasets
    /\ profile \in ExampleProfiles
    /\ plan = ExamplePlan
    /\ pc = "start"
    /\ vres = NoResult
    /\ i = 0
    /\ current_df = df
    /\ execution_log = <<>>
    /\ seen = <<>>
    /\ result = NoResult
    /\ df_before = df
    /\ obj = CallerObject
    /\ sample_df = df
    /\ history = <<>>
    /\ session = <<>>
    /\ response = NoResult

\* validate, then execute; the loop's other two branches are part of the
\* property (they are never enabled here)
NextExample ==
    \/ DoValidate
    \/ ExecBegin
    \/ ExecStepSuccess
    \/ ExecFinish

SpecExample == InitExample /\ [][NextExample]_vars

---------------------------------------------------------------------------
(* validate on steps that name columns: present and absent columns, of      *)
(* every type the profiler can give them.                                   *)

\* a frame long enough for every inferred type
ReferenceDatasets ==
    {[rows |-> 100, columns |-> Columns, numeric |-> num, cells |-> <<>>] :
        num \in {{}, {"A"}}}

\* column A profiled as any type _infer_type can give it, column B as text
ReferenceProfiles(d) ==
    {[column_names |-> d.columns,
      inferred_type |-> [c \in d.columns |-> IF c = "A" THEN tA ELSE "text"]] :
        tA \in InferType(d, "A")}

ReferenceSteps ==
    {Step("drop_columns", [columns |-> <<"A", "ghost">>]),
     Step("fill_missing", [column |-> "A"]),
     Step("fill_missing", [column |-> "A", strategy |-> "median"]),
     Step("fill_missing", [column |-> "A", strategy |-> "mode"]),
     Step("fill_missing", [column |-> "ghost"]),
     Step("remove_outliers", [column |-> "A"]),
     Step("remove_outliers", [column |-> "ghost"]),
     Step("sort_by", [column |-> "ghost"]),
     Step("scale_numeric", [columns |-> <<"ghost", "A">>]),
     Step("encode_categorical", [columns |-> <<"ghost">>]),
     Step("filter_rows", [column |-> "ghost", operator |-> ">", value |-> 0]),
     Step("drop_duplicates", [subset |-> <<"ghost">>])}

ReferencePlans ==
    {[steps |-> [type |-> "list", items |-> s]] :
        s \in UNION {[1..n -> ReferenceSteps] : n \in 0..MaxSteps}}

InitReferences ==
    /\ df \in ReferenceDatasets
    /\ profile \in ReferenceProfiles(df)
    /\ plan \in ReferencePlans
    /\ pc = "start"
    /\ vres = NoResult
    /\ i = 0
    /\ current_df = df
    /\ execution_log = <<>>
    /\ seen = <<>>
    /\ result = NoResult
    /\ df_before = df
    /\ obj = CallerObject
    /\ sample_df = df
    /\ history = <<>>
    /\ session = <<>>
    /\ response = NoResult

NextReferences == DoValidate

SpecReferences == InitReferences /\ [][NextReferences]_vars

---------------------------------------------------------------------------
(* execute on plans whose steps name columns the dataset does not have      *)
(* (never had, or lost to an earlier drop_columns step), one step shape per  *)
(* registry operation whose params name columns.                            *)

AbsentColumnSteps ==
    {Step("drop_duplicates", [subset |-> <<"ghost">>]),
     Step("drop_columns", [columns |-> <<"ghost">>]),
     Step("drop_columns", [columns |-> <<"A">>]),
     Step("fill_missing", [column |-> "ghost", strategy |-> "mode"]),
     Step("remove_outliers", [column |-> "ghost"]),
     Step("filter_rows", [column |-> "ghost", operator |-> ">", value |-> 0]),
     Step("filter_rows", [column |-> "A", operator |-> ">", value |-> 0]),
     Step("sort_by", [column |-> "ghost"]),
     Step("scale_numeric", [columns |-> <<"ghost">>]),
     Step("encode_categorical", [columns |-> <<"ghost">>]),
     Step("create_feature", [name |-> "f", expression |-> <<"ghost", "A">>]),
     Step("create_feature", [name |-> "f", type |-> "binning", column |-> "ghost"]),
     Step("create_feature", [name |-> "f", type |-> "interaction",
                             columns |-> <<"A", "ghost">>]),
     Step("extract_datetime_features", [column |-> "ghost"]),
     Step("create_text_features", [column |-> "A"]),
     Step("create_text_features", [column |-> "ghost"]),
     Step("aggregate_features", [group_by |-> "ghost", agg_column |-> "ghost"]),
     Step("handle_high_cardinality", [column |-> "ghost"])}

AbsentColumnPlans ==
    {[steps |-> [type |-> "list", items |-> s]] :
        s \in UNION {[1..n -> AbsentColumnSteps] : n \in 0..MaxSteps}}

InitAbsent ==
    /\ df \in Datasets
    /\ profile \in Profiles(df)
    /\ plan \in AbsentColumnPlans
    /\ pc = "start"
    /\ vres = NoResult
    /\ i = 0
    /\ current_df = df
    /\ execution_log = <<>>
    /\ seen = <<>>
    /\ result = NoResult
    /\ df_before = df
    /\ obj = CallerObject
    /\ sample_df = df
    /\ history = <<>>
    /\ session = <<>>
    /\ response = NoResult

NextAbsent ==
    \/ CallExecute
    \/ ExecStepSuccess
    \/ ExecStepFailed
    \/ ExecFinish

SpecAbsent == InitAbsent /\ [][NextAbsent]_vars

---------------------------------------------------------------------------
(* dry_run on datasets that carry their index labels, shorter and longer    *)
(* than the sample limit, called twice.  The datasets carry their cell      *)
(* values, so each step of the plans has one outcome.                       *)

\* column A holds the row's number, column B one value
SampleDatasets ==
    {[rows |-> n, columns |-> Columns, numeric |-> {"A"}, cells |-> <<>>,
      index |-> [k \in 1..n |-> k],
      data |-> [k \in 1..n |-> [A |-> k, B |-> 0]]] :
        n \in {0, MaxRows, SampleLimit, SampleLimit + 1}}

SampleSteps ==
    {Step("filter_rows", [column |-> "A", operator |-> "<=", value |-> SampleLimit]),
     Step("fill_missing", [column |-> "A", strategy |-> "constant"]),
     [op |-> "impute_knn"]}

SamplePlans ==
    {[steps |-> [type |-> "list", items |-> s]] :
        s \in UNION {[1..n -> SampleSteps] : n \in 0..MaxSteps}}

InitSample ==
    /\ df \in SampleDatasets
    /\ profile = [column_names |-> df.columns,
                  inferred_type |-> [c \in df.columns |-> "identifier"]]
    /\ plan \in SamplePlans
    /\ pc = "start"
    /\ vres = NoResult
    /\ i = 0
    /\ current_df = df
    /\ execution_log = <<>>
    /\ seen = <<>>
    /\ result = NoResult
    /\ df_before = df
    /\ obj = CallerObject
    /\ sample_df = df
    /\ history = <<>>
    /\ session = <<>>
    /\ response = NoResult

NextSample ==
    \/ CallDryRun
    \/ DryStepUnknown
    \/ DryStepSuccess
    \/ DryStepFailed
    \/ DryFinish
    \/ CallAgain

SpecSample == InitSample /\ [][NextSample]_vars

---------------------------------------------------------------------------
(* execute and then dry_run on the same dataset and plan.  The datasets     *)
(* carry their cell values, so each step has the same single outcome in     *)
(* both calls.                                                              *)

\* column A holds the row's number, column B one value
CompareDatasets ==
    {[rows |-> n, columns |-> Columns, numeric |-> {"A"}, cells |-> <<>>,
      index |-> [k \in 1..n |-> k],
      data |-> [k \in 1..n |-> [A |-> k, B |-> 0]]] :
        n \in {1, MaxRows, 22}}

CompareSteps ==
    {Step("filter_rows", [column |-> "A", operator |-> "<=", value |-> 15]),
     Step("filter_rows", [column |-> "A", operator |-> ">", value |-> 1]),
     Step("fill_missing", [column |-> "A", strategy |-> "constant"]),
     Step("create_text_features", [column |-> "ghost"]),
     [op |-> "impute_knn"]}

ComparePlans ==
    {[steps |-> [type |-> "list", items |-> s]] :
        s \in UNION {[1..n -> CompareSteps] : n \in 0..MaxSteps}}

InitCompare ==
    /\ df \in CompareDatasets
    /\ profile = [column_names |-> df.columns,
                  inferred_type |-> [c \in df.columns |-> "identifier"]]
    /\ plan \in ComparePlans
    /\ pc = "start"
    /\ vres = NoResult
    /\ i = 0
    /\ current_df = df
    /\ execution_log = <<>>
    /\ seen = <<>>
    /\ result = NoResult
    /\ df_before = df
    /\ obj = CallerObject
    /\ sample_df = df
    /\ history = <<>>
    /\ session = <<>>
    /\ response = NoResult

\* the first call is execute, the second dry_run
NextCompare ==
    \/ history = <<>> /\ CallExecute
    \/ ExecStepSkipped
    \/ ExecStepSuccess
    \/ ExecStepFailed
    \/ ExecFinish
    \/ CallAgain
    \/ history # <<>> /\ CallDryRun
    \/ DryStepUnknown
    \/ DryStepSuccess
    \/ DryStepFailed
    \/ DryFinish

SpecCompare == InitCompare /\ [][NextCompare]_vars

---------------------------------------------------------------------------
(* Two /execute requests on one session id, served by threads of the        *)
(* development server (app.run, threaded by default) with no lock around     *)
(* the sessions dict.  history[r] is what request r holds locally; a step   *)
(* of a request ends at each read or write of the session.                  *)

Requests == 1..MaxRequests

\* PipelineExecutor.execute as a function of its arguments: every (final
\* frame, log) the loop can end with from loop index `index` on
RECURSIVE ExecuteFrom(_, _, _, _)
ExecuteFrom(d, steps, index, log) ==
    IF index >= Len(steps) THEN {[df |-> d, log |-> log]}
    ELSE LET step == steps[index + 1]
             op_name == Get(step, "op", None)
             params == Get(step, "params", <<>>)
         IN  IF op_name \notin Registry
             THEN ExecuteFrom(d, steps, index + 1,
                              Append(log, SkippedEntry(index, op_name)))
             ELSE UNION {
                    IF out.raised
                    THEN ExecuteFrom(out.df, steps,
                                     ContinueAfterFailed(index, Len(steps)),
                                     Append(log, FailedEntry(index, op_name, out.error)))
                    ELSE ExecuteFrom(out.df, steps, index + 1,
                                     Append(log, SuccessEntry(index, op_name, params,
                                                              Shape(d), Shape(out.df))))
                    : out \in Operation(op_name, d, params)}

\* the results executor.execute(d, p) can return
ExecuteResults(d, p) ==
    {[returned |-> TRUE,
      processed_df |-> o.df,
      execution_log |-> o.log,
      summary |-> GenerateSummary(Shape(d), Shape(o.df), o.log)] :
        o \in ExecuteFrom(d, Steps(p), 0, <<>>)}

\* the plans the two requests carry
ConcurrentPlans ==
    {[steps |-> [type |-> "list", items |-> s]] :
        s \in {<<Step("drop_columns", [columns |-> <<"A">>])>>,
               <<Step("drop_columns", [columns |-> <<"B">>]),
                 Step("fill_missing", [column |-> "A", strategy |-> "constant"])>>,
               <<Step("sort_by", [column |-> "ghost"])>>}}

Idle == [pc |-> "idle", plan |-> <<>>, result |-> NoResult, report |-> <<>>,
         response |-> NoResult]

InitConcurrent ==
    /\ df \in Datasets
    /\ profile \in Profiles(df)
    /\ plan = <<>>
    /\ pc = "serving"
    /\ vres = NoResult
    /\ i = 0
    /\ current_df = df
    /\ execution_log = <<>>
    /\ seen = <<>>
    /\ result = NoResult
    /\ df_before = df
    /\ obj = CallerObject
    /\ sample_df = df
    /\ history = [r \in Requests |-> Idle]
    /\ session = <<>>
    /\ response = NoResult

Untouched ==
    UNCHANGED <<df, profile, plan, pc, vres, i, current_df, execution_log, seen,
                result, df_before, obj, sample_df, response>>

\* lines 400-429: the request arrives with its plan; validate
ConcurrentArrive ==
    \E r \in Requests, p \in ConcurrentPlans :
        /\ history[r].pc = "idle"
        /\ LET v == Validate(profile, p)
           IN  history' =
                 [history EXCEPT ![r] =
                    IF v.raised \/ ~v.is_valid
                    THEN [@ EXCEPT !.pc = "responded", !.plan = p,
                                   !.response = [returned |-> TRUE, status |-> 400,
                                                 error |-> "Invalid plan",
                                                 validation_errors |-> v.errors]]
                    ELSE [@ EXCEPT !.pc = "validated", !.plan = p]]
        /\ UNCHANGED session
        /\ Untouched

\* lines 431-433: executor.execute(df, plan)
ConcurrentExecute ==
    \E r \in Requests :
        /\ history[r].pc = "validated"
        /\ \E res \in ExecuteResults(df, history[r].plan) :
              history' = [history EXCEPT ![r] = [@ EXCEPT !.pc = "executed",
                                                          !.result = res]]
        /\ UNCHANGED session
        /\ Untouched

\* line 436: sessions[session_id]['processed_df'] = result['processed_df']
ConcurrentStoreProcessed ==
    \E r \in Requests :
        /\ history[r].pc = "executed"
        /\ session' = [processed_df |-> history[r].result.processed_df] @@ session
        /\ history' = [history EXCEPT ![r] = [@ EXCEPT !.pc = "stored_df"]]
        /\ Untouched

\* lines 437-442: sessions[session_id]['execution_result'] = result, then
\* the report is generated
ConcurrentStoreResult ==
    \E r \in Requests :
        /\ history[r].pc = "stored_df"
        /\ session' = [execution_result |-> history[r].result] @@ session
        /\ history' = [history EXCEPT ![r] =
                         [@ EXCEPT !.pc = "stored_result",
                                   !.report = Report(history[r].plan, history[r].result)]]
        /\ Untouched

\* lines 444-451: sessions[session_id]['report'] = report; respond
ConcurrentStoreReport ==
    \E r \in Requests :
        /\ history[r].pc = "stored_result"
        /\ session' = [report |-> history[r].report] @@ session
        /\ history' = [history EXCEPT ![r] =
                         [@ EXCEPT !.pc = "responded",
                                   !.response = [returned |-> TRUE, status |-> 200,
                                                 execution_log |-> history[r].result.execution_log,
                                                 summary |-> history[r].result.summary,
                                                 report |-> history[r].report]]]
        /\ Untouched

NextConcurrent ==
    \/ ConcurrentArrive
    \/ ConcurrentExecute
    \/ ConcurrentStoreProcessed
    \/ ConcurrentStoreResult
    \/ ConcurrentStoreReport

SpecConcurrent == InitConcurrent /\ [][NextConcurrent]_vars

---------------------------------------------------------------------------
(* validate, then execute, on plans whose steps carry each value of the     *)
(* four enumerations the validator checks.                                  *)

EnumSteps ==
    {Step("fill_missing", [column |-> "A", strategy |-> v, value |-> "0"]) :
        v \in FILL_STRATEGIES}
    \cup {Step("remove_outliers", [column |-> "A", method |-> v]) : v \in OUTLIER_METHODS}
    \cup {Step("scale_numeric", [columns |-> <<"A">>, method |-> v]) : v \in SCALING_METHODS}
    \cup {Step("encode_categorical", [columns |-> <<"B">>, method |-> v]) :
            v \in ENCODING_METHODS}
    \cup {Step("remove_outliers", [column |-> "A", method |-> "lof"])}

EnumPlans ==
    {[steps |-> [type |-> "list", items |-> s]] :
        s \in UNION {[1..n -> EnumSteps] : n \in 1..(MaxSteps - 1)}}

InitEnums ==
    /\ df \in {d \in Datasets : d.numeric = {"A"}}
    /\ profile \in Profiles(df)
    /\ plan \in EnumPlans
    /\ pc = "start"
    /\ vres = NoResult
    /\ i = 0
    /\ current_df = df
    /\ execution_log = <<>>
    /\ seen = <<>>
    /\ result = NoResult
    /\ df_before = df
    /\ obj = CallerObject
    /\ sample_df = df
    /\ history = <<>>
    /\ session = <<>>
    /\ response = NoResult

\* the plan is executed when validate accepted it, as the routes do
NextEnums ==
    \/ DoValidate
    \/ pc = "validated" /\ ~vres.raised /\ vres.is_valid /\ ExecBegin
    \/ ExecStepSuccess
    \/ ExecStepFailed
    \/ ExecFinish

SpecEnums == InitEnums /\ [][NextEnums]_vars

---------------------------------------------------------------------------
(* The session store and the routes that write or read a session's plan:    *)
(* /plan, /regenerate-plan, /full-workflow and /dry-run. session maps each   *)
(* session id to its entries; history holds the requests made, the last     *)
(* one being the request in progress.                                       *)

SessionIds == {"s1", "s2"}

\* what LLMPlanner.generate_plan and regenerate_plan may hand back
PlannerPlans ==
    {[steps |-> [type |-> "list", items |-> s]] :
        s \in {<<Step("drop_columns", [columns |-> <<"A">>])>>,
               <<Step("scale_numeric", [columns |-> <<"A">>, method |-> "standard"])>>,
               <<Step("sort_by", [column |-> "ghost"])>>,
               <<[op |-> "impute_knn"]>>}}

\* upload_dataset has stored one session
InitStore ==
    /\ df \in Datasets
    /\ profile \in Profiles(df)
    /\ plan = <<>>
    /\ pc = "idle"
    /\ vres = NoResult
    /\ i = 0
    /\ current_df = df
    /\ execution_log = <<>>
    /\ seen = <<>>
    /\ result = NoResult
    /\ df_before = df
    /\ obj = CallerObject
    /\ sample_df = df
    /\ history = <<>>
    /\ session = [s \in {"s1"} |-> [df |-> df, profile |-> profile]]
    /\ response = NoResult

\* generate_plan, lines 290-321: the planner's plan is about to be validated,
\* unless the task is found incompatible with the dataset
StorePlanRequest ==
    /\ pc = "idle"
    /\ Len(history) < MaxRequests
    /\ \E sid \in DOMAIN session, p \in PlannerPlans, compatible \in BOOLEAN :
         /\ history' = Append(history, [route |-> "/plan", sid |-> sid, stored |-> FALSE])
         /\ profile' = session[sid].profile
         /\ df' = session[sid].df
         /\ IF compatible
            THEN /\ plan' = p
                 /\ response' = NoResult
                 /\ pc' = "start"
            ELSE /\ plan' = <<>>
                 /\ response' = [returned |-> TRUE, status |-> 200,
                                 warning |-> "Dataset may not be optimal for this task"]
                 /\ pc' = "idle"
    /\ vres' = NoResult
    /\ UNCHANGED <<i, current_df, execution_log, seen, result, df_before, obj,
                   sample_df, session>>

\* generate_plan, lines 323-348
StorePlanRespond ==
    /\ pc = "validated"
    /\ history[Len(history)].route = "/plan"
    /\ LET sid == history[Len(history)].sid
       IN  IF vres.raised
           THEN /\ response' = [returned |-> TRUE, status |-> 500,
                                error |-> "Failed to generate plan"]
                /\ UNCHANGED session
           ELSE IF ~vres.is_valid
           THEN /\ response' = [returned |-> TRUE, status |-> 400,
                                error |-> "Generated plan is invalid", plan |-> plan]
                /\ UNCHANGED session
           ELSE /\ session' = [session EXCEPT ![sid] =
                                  [plan |-> plan, purpose |-> "purpose"] @@ @]
                /\ response' = [returned |-> TRUE, status |-> 200, plan |-> plan]
    /\ pc' = "idle"
    /\ UNCHANGED <<df, profile, plan, vres, i, current_df, execution_log, seen,
                   result, df_before, obj, sample_df, history>>

\* regenerate_plan, lines 581-603: a session that holds a plan
StoreRegenerateRequest ==
    /\ pc = "idle"
    /\ Len(history) < MaxRequests
    /\ \E sid \in DOMAIN session, p \in PlannerPlans :
         /\ "plan" \in DOMAIN session[sid]
         /\ history' = Append(history, [route |-> "/regenerate-plan", sid |-> sid,
                                        stored |-> FALSE])
         /\ profile' = session[sid].profile
         /\ df' = session[sid].df
         /\ plan' = p
    /\ response' = NoResult
    /\ pc' = "start"
    /\ vres' = NoResult
    /\ UNCHANGED <<i, current_df, execution_log, seen, result, df_before, obj,
                   sample_df, session>>

\* regenerate_plan, lines 605-622
StoreRegenerateRespond ==
    /\ pc = "validated"
    /\ history[Len(history)].route = "/regenerate-plan"
    /\ LET sid == history[Len(history)].sid
       IN  IF vres.raised
           THEN /\ response' = [returned |-> TRUE, status |-> 500,
                                error |-> "Plan regeneration failed"]
                /\ UNCHANGED session
           ELSE /\ session' = IF vres.is_valid
                              THEN [session EXCEPT ![sid] = [plan |-> plan] @@ @]
                              ELSE session
                /\ response' = [returned |-> TRUE, status |-> 200, plan |-> plan,
                                valid |-> vres.is_valid]
    /\ pc' = "idle"
    /\ UNCHANGED <<df, profile, plan, vres, i, current_df, execution_log, seen,
                   result, df_before, obj, sample_df, history>>

\* full_workflow, lines 650-684: a new session holding the uploaded dataset,
\* its profile and the planner's plan
StoreFullWorkflow ==
    /\ pc = "idle"
    /\ Len(history) < MaxRequests
    /\ \E sid \in SessionIds \ DOMAIN session, d \in Datasets, p \in PlannerPlans :
         \E pr \in Profiles(d) :
             /\ history' = Append(history, [route |-> "/full-workflow", sid |-> sid,
                                            stored |-> FALSE])
             /\ df' = d
             /\ profile' = pr
             /\ plan' = p
             /\ session' = session @@
                   [s \in {sid} |-> [df |-> d, profile |-> pr, plan |-> p,
                                     purpose |-> "purpose",
                                     health_score |-> "health_score"]]
             /\ response' = [returned |-> TRUE, status |-> 200, plan |-> p]
    /\ UNCHANGED <<pc, vres, i, current_df, execution_log, seen, result, df_before,
                   obj, sample_df>>

\* dry_run route, lines 462-476: the plan of the request, or the stored plan
\* when the request carries none (<<>>: None or an empty mapping)
StoreDryRunRequest ==
    /\ pc = "idle"
    /\ Len(history) < MaxRequests
    /\ \E sid \in DOMAIN session, req \in PlannerPlans \cup {<<>>} :
         LET chosen == IF DOMAIN req = {} THEN Get(session[sid], "plan", <<>>) ELSE req
         IN  /\ history' = Append(history, [route |-> "/dry-run", sid |-> sid,
                                            stored |-> DOMAIN req = {}])
             /\ plan' = chosen
             /\ df' = session[sid].df
             /\ profile' = session[sid].profile
             /\ IF DOMAIN chosen = {}
                THEN /\ response' = [returned |-> TRUE, status |-> 400,
                                     error |-> "No plan available"]
                     /\ pc' = "idle"
                ELSE /\ response' = NoResult
                     /\ pc' = "dry_start"
    /\ UNCHANGED <<vres, i, current_df, execution_log, seen, result, df_before, obj,
                   sample_df, session>>

\* dry_run route, lines 478-481: executor.dry_run(df, plan) is entered
StoreDryRunEnter ==
    /\ pc = "dry_start"
    /\ DryEnter
    /\ UNCHANGED <<session, response, df, profile, plan, vres, result, df_before, history>>

\* dry_run route, lines 483-489
StoreDryRunRespond ==
    /\ pc = "dry_done"
    /\ response' = IF result.returned
                   THEN [returned |-> TRUE, status |-> 200, estimated_impact |-> result]
                   ELSE [returned |-> TRUE, status |-> 500, error |-> "Dry run failed"]
    /\ pc' = "idle"
    /\ UNCHANGED <<df, profile, plan, vres, i, current_df, execution_log, seen,
                   result, df_before, obj, sample_df, history, session>>

NextStore ==
    \/ StorePlanRequest
    \/ StoreRegenerateRequest
    \/ DoValidate
    \/ StorePlanRespond
    \/ StoreRegenerateRespond
    \/ StoreFullWorkflow
    \/ StoreDryRunRequest
    \/ StoreDryRunEnter
    \/ DryStepUnknown
    \/ DryStepSuccess
    \/ DryStepFailed
    \/ DryFinish
    \/ StoreDryRunRespond

SpecStore == InitStore /\ [][NextStore]_vars

---------------------------------------------------------------------------
(* Vocabulary of the properties *)

PlanIsList == "steps" \in DOMAIN plan /\ plan["steps"].type = "list"

NSteps == Len(Steps(plan))

OpOf(k) == Get(Steps(plan)[k], "op", None)

ParamsOf(k) == Get(Steps(plan)[k], "params", <<>>)

EveryStepHasOp == \A k \in 1..NSteps : "op" \in DOMAIN Steps(plan)[k]

\* the dataset that is current once step k is over
After(k) == IF k < Len(seen) THEN seen[k + 1] ELSE current_df

Done == pc = "done" /\ result.returned

\* validate has just ended (vres is not written again afterwards)
ValidateEnded == pc = "validated" /\ vres.returned

Validated == vres.returned /\ ~vres.raised

OrderCheckedKinds ==
    {"fill_missing", "remove_outliers", "sort_by", "scale_numeric",
     "encode_categorical"}

\* the columns a step of an order-checked kind names
Refs(k) ==
    IF OpOf(k) \in {"fill_missing", "remove_outliers", "sort_by"}
    THEN (IF "column" \in DOMAIN ParamsOf(k) THEN {ParamsOf(k)["column"]} ELSE {})
    ELSE IF OpOf(k) \in {"scale_numeric", "encode_categorical"}
    THEN Range(Get(ParamsOf(k), "columns", <<>>))
    ELSE {}

\* the columns listed by step k when it is a drop_columns step
DropsOf(k) ==
    IF OpOf(k) = "drop_columns" THEN Range(Get(ParamsOf(k), "columns", <<>>))
    ELSE {}

DroppedBefore(j) == UNION {DropsOf(k) : k \in 1..(j - 1)}

ColumnNames == Columns \cup {"ghost"}

---------------------------------------------------------------------------
(* C1 *)

\* C1: rollback on failure.  When the transform of step k raises, the dataset
\* that is current after step k (the one step k+1 receives, or the returned
\* processed_df when k is the last step) is exactly the dataset step k
\* received; with no successful step at all the result is the input's copy.
C1_RollbackOnFailure ==
    /\ \A k \in 1..Len(execution_log) :
          execution_log[k].status = "failed" => After(k) = seen[k]
    /\ Done =>
          /\ result.processed_df = After(Len(execution_log))
          /\ (\A k \in 1..Len(execution_log) :
                 execution_log[k].status # "success")
                => result.processed_df = df

\* step 1 rewrote the data, step 2 raised, step 3 ran on the result of step 1
C1_Witness ==
    /\ Done
    /\ Len(execution_log) = 3
    /\ execution_log[1].status = "success"
    /\ execution_log[2].status = "failed"
    /\ execution_log[3].status = "success"
    /\ seen[2] # df
    /\ seen[3] = seen[2]
    /\ result.processed_df # seen[3]

---------------------------------------------------------------------------
(* C2 *)

\* C2: a failure or an unknown operation never aborts the batch.  The loop
\* can always go on or return, and what execute returns has one log entry
\* per plan step, entry k carrying step = k, the op of plan step k and a
\* status among success, failed, skipped; every step was attempted.
C2_NeverAborts ==
    /\ pc = "loop" =>
          ENABLED (ExecStepSkipped \/ ExecStepSuccess \/ ExecStepFailed \/ ExecFinish)
    /\ Done =>
          /\ Len(result.execution_log) = NSteps
          /\ Len(seen) = NSteps
          /\ \A k \in 1..NSteps :
                /\ result.execution_log[k].step = k
                /\ result.execution_log[k].operation = OpOf(k)
                /\ result.execution_log[k].status \in {"success", "failed", "skipped"}

\* a failed first step and a skipped second step, and the third still ran
C2_Witness ==
    /\ Done
    /\ NSteps = 3
    /\ result.execution_log[1].status = "failed"
    /\ result.execution_log[2].status = "skipped"
    /\ result.execution_log[3].status = "success"

---------------------------------------------------------------------------
(* C3 *)

\* C3: a step whose op is not a key of the registry is logged 'skipped' with
\* the unknown operation as reason, leaves the current dataset unchanged, and
\* the loop goes on to the next step.
C3_UnknownOpSkipped ==
    /\ \A k \in 1..Len(execution_log) :
          OpOf(k) \notin Registry =>
             /\ execution_log[k].status = "skipped"
             /\ execution_log[k].reason = OpOf(k)
             /\ After(k) = seen[k]
    /\ Done => Len(execution_log) = NSteps

\* an unknown operation in the middle of a plan whose last step then ran
C3_Witness ==
    /\ Done
    /\ NSteps = 3
    /\ OpOf(2) = "impute_knn"
    /\ execution_log[2].status = "skipped"
    /\ execution_log[3].status = "success"
    /\ execution_log[3].before_shape = Shape(seen[2])

---------------------------------------------------------------------------
(* C4 *)

UnknownOpReported(k) ==
    \E n \in 1..Len(vres.errors) :
        vres.errors[n] = Err(k, "Unknown operation", OpOf(k))

\* C4: validation completeness.  For a plan whose steps all carry an 'op'
\* field, validate returns; and when the op at position k is not in the
\* registry it returns is_valid = False with an error that carries step
\* index k and that operation name.
C4_ValidationCompleteness ==
    (ValidateEnded /\ PlanIsList /\ EveryStepHasOp) =>
        /\ ~vres.raised
        /\ \A k \in 1..NSteps :
              OpOf(k) \notin Registry =>
                 /\ vres.is_valid = FALSE
                 /\ UnknownOpReported(k)

\* an unregistered name at step 2 of a plan whose other steps are clean
C4_Witness ==
    /\ Validated
    /\ NSteps = 3
    /\ EveryStepHasOp
    /\ OpOf(2) = "impute_knn"
    /\ Len(vres.errors) = 1
    /\ UnknownOpReported(2)
    /\ ~vres.is_valid

---------------------------------------------------------------------------
(* C5 *)

\* C5: the validator and the executor agree on the operation vocabulary:
\* validate reports step k as an unknown operation exactly when execute logs
\* step k as skipped.
C5_VocabularyAgreement ==
    (Done /\ Validated /\ PlanIsList) =>
        \A k \in 1..NSteps :
            UnknownOpReported(k) <=> execution_log[k].status = "skipped"

---------------------------------------------------------------------------
(* C6 *)

\* no step names a column listed by a strictly earlier drop_columns step
NoDroppedReference ==
    \A j \in 1..NSteps : Refs(j) \cap DroppedBefore(j) = {}

NoContractError ==
    \A k \in 1..NSteps : ValidateStep(profile, Steps(plan)[k], k - 1) = <<>>

\* C6: validation soundness.  When 'steps' is a list, every step on its own
\* produces no contract error and no step references a column dropped by a
\* strictly earlier drop_columns step, validate returns is_valid = True with
\* an empty error list.
C6_ValidationSoundness ==
    (ValidateEnded /\ PlanIsList /\ NoContractError /\ NoDroppedReference) =>
        /\ ~vres.raised
        /\ vres.is_valid = TRUE
        /\ vres.errors = <<>>

\* an accepted plan that fills a column and only afterwards drops it
C6_Witness ==
    /\ Validated
    /\ NSteps = 3
    /\ OpOf(1) = "fill_missing"
    /\ OpOf(2) = "sort_by"
    /\ OpOf(3) = "drop_columns"
    /\ "A" \in Refs(1) \cap Refs(2) \cap DropsOf(3)
    /\ NoContractError
    /\ vres.is_valid
    /\ vres.errors = <<>>

---------------------------------------------------------------------------
(* C7 *)

\* C7: every value validate returns satisfies is_valid == (len(errors) == 0),
\* the two structural early returns included.
C7_ValidIffNoErrors ==
    (ValidateEnded /\ ~vres.raised) => (vres.is_valid <=> Len(vres.errors) = 0)

\* the early return for 'steps' that is not a list
C7_Witness ==
    /\ Validated
    /\ "steps" \in DOMAIN plan
    /\ ~PlanIsList
    /\ ~vres.is_valid
    /\ Len(vres.errors) = 1

---------------------------------------------------------------------------
(* C8 *)

DroppedRefReported(j, c) ==
    \E n \in 1..Len(vres.errors) :
        vres.errors[n] = Err(j, "References dropped column", c)

---------------------------------------------------------------------------
(* C9 *)

\* C9: referential integrity end to end.  When validate accepted the plan
\* against the profile of the dataset, no step of an order-checked kind runs
\* at a moment when a column it names, present in the input dataset, is no
\* longer in the current dataset.
C9_ReferentialIntegrity ==
    (Done /\ Validated /\ vres.is_valid) =>
        \A k \in 1..NSteps :
            OpOf(k) \in OrderCheckedKinds =>
                \A c \in Refs(k) : c \in df.columns => c \in seen[k].columns

---------------------------------------------------------------------------
(* C10 *)

\* the listed columns of drop_columns step k that its input frame holds
PresentDrops(k) == DropsOf(k) \cap seen[k].columns

\* C10: no-op tolerance of drop_columns.  A drop_columns step is logged
\* 'success' and removes exactly the listed columns that are present, the
\* rows and the cells untouched; when every listed column is absent the
\* entry has rows_changed = 0, columns_changed = 0 and equal shapes.
C10_DropColumnsTolerance ==
    \A k \in 1..Len(execution_log) :
        OpOf(k) = "drop_columns" =>
            /\ execution_log[k].status = "success"
            /\ After(k) = [seen[k] EXCEPT !.columns = @ \ PresentDrops(k),
                                          !.numeric = @ \ PresentDrops(k)]
            /\ execution_log[k].columns_changed = 0 - Cardinality(PresentDrops(k))
            /\ execution_log[k].rows_changed = 0
            /\ PresentDrops(k) = {} =>
                  /\ execution_log[k].columns_changed = 0
                  /\ execution_log[k].before_shape = execution_log[k].after_shape
                  /\ After(k) = seen[k]

\* drop_columns([A, ghost]) removed A alone, then drop_columns([A, ghost])
\* and drop_columns([A]) found none of their columns
C10_Witness ==
    /\ Done
    /\ NSteps = 3
    /\ DropsOf(1) = {"A", "ghost"} /\ PresentDrops(1) = {"A"}
    /\ execution_log[1].columns_changed = -1
    /\ DropsOf(2) = {"A", "ghost"} /\ PresentDrops(2) = {}
    /\ DropsOf(3) = {"A"} /\ PresentDrops(3) = {}
    /\ execution_log[2].status = "success"
    /\ execution_log[3].status = "success"
    /\ execution_log[3].columns_changed = 0

---------------------------------------------------------------------------
(* C11 *)

\* an earlier execute of the same plan on the same stored dataset is over
ExecutedBefore == history # <<>> /\ history[1].call = "done"

\* C11: neither execute nor dry_run mutates or aliases the caller's dataset.
\* During and after every call the caller's dataset has the rows, columns and
\* cell values it had before the first call; the processed_df execute
\* returns is never the caller's object; and a second execute of the same
\* plan on the stored dataset returns the frame, the log and the summary the
\* first one returned.
C11_NoMutationNoAliasing ==
    /\ df = df_before
    /\ Done => result.processed_object # CallerObject
    /\ (Done /\ ExecutedBefore) =>
          /\ result.processed_df = history[1].result.processed_df
          /\ result.execution_log = history[1].result.execution_log
          /\ result.summary = history[1].result.summary

\* execute ran twice on a plan whose two steps both fail: each time the
\* frame returned equals the input and is another object
C11_Witness ==
    /\ Done
    /\ ExecutedBefore
    /\ NSteps = 2
    /\ \A k \in 1..2 : result.execution_log[k].status = "failed"
    /\ result.processed_df = df
    /\ history[1].result.processed_df = df
    /\ result.processed_object # CallerObject

---------------------------------------------------------------------------
(* C12 *)

\* C12: idempotence of drop_duplicates.  For every dataset and every params
\* (subset, keep), once the two consecutive drop_duplicates steps are over
\* the frame after the second is the frame after the first (same rows, same
\* order), and the second step is logged 'success' with rows_changed = 0.
C12_DropDuplicatesIdempotent ==
    (Done /\ NSteps = 2) =>
        /\ result.processed_df = seen[2]
        /\ execution_log[2].status = "success"
        /\ execution_log[2].rows_changed = 0

\* the same statement for the params under which drop_duplicates returns
C12_IdempotentWhenSubsetPresent ==
    (Done /\ NSteps = 2
          /\ Range(Get(ParamsOf(1), "subset", <<>>)) \subseteq df.columns) =>
        /\ result.processed_df = seen[2]
        /\ execution_log[2].status = "success"
        /\ execution_log[2].rows_changed = 0

---------------------------------------------------------------------------
(* C13 *)

\* position of the last 'success' entry of the log, 0 when there is none
RECURSIVE LastSuccess(_, _)
LastSuccess(log, k) ==
    IF k = 0 THEN 0
    ELSE IF log[k].status = "success" THEN k
    ELSE LastSuccess(log, k - 1)

\* C13: summary consistency.  summary.final_shape of what execute returns is
\* the after_shape of the last 'success' entry of the log, or
\* summary.original_shape when no entry is a 'success'; and it is the shape
\* of the returned processed_df.
C13_SummaryConsistency ==
    Done =>
        LET log == result.execution_log
            last == LastSuccess(log, Len(log))
        IN  /\ result.summary.final_shape =
                  IF last = 0 THEN result.summary.original_shape
                  ELSE log[last].after_shape
            /\ result.summary.final_shape = Shape(result.processed_df)

\* a step that changed the shape, then a failed and a skipped step: the final
\* shape is the one step 1 left, not the original one
C13_Witness ==
    /\ Done
    /\ NSteps = 3
    /\ result.execution_log[1].status = "success"
    /\ result.execution_log[2].status = "failed"
    /\ result.execution_log[3].status = "skipped"
    /\ result.summary.final_shape = result.execution_log[1].after_shape
    /\ result.summary.final_shape # result.summary.original_shape

---------------------------------------------------------------------------
(* C14 *)

\* number of plan steps of the given fate, read off the plan and the frames
\* rather than off the log
StepsNotRegistered == Cardinality({k \in 1..NSteps : OpOf(k) \notin Registry})

\* C14: the summary is a function of the log and the two shapes.
\* total_steps is the length of the log and the number of plan steps; the
\* three counts add up to it and each counts the entries of its status;
\* rows_removed is original rows minus final rows, columns_added final
\* columns minus original columns; rows_removed_percent is
\* rows_removed / original rows * 100, and 0 for an input of zero rows.
C14_SummaryOfLog ==
    Done =>
        LET sm == result.summary
            log == result.execution_log
            Count(st) == Cardinality({k \in 1..Len(log) : log[k].status = st})
        IN  /\ sm.total_steps = Len(log)
            /\ sm.total_steps = NSteps
            /\ sm.successful_steps + sm.failed_steps + sm.skipped_steps = sm.total_steps
            /\ sm.successful_steps = Count("success")
            /\ sm.failed_steps = Count("failed")
            /\ sm.skipped_steps = Count("skipped")
            /\ sm.skipped_steps = StepsNotRegistered
            /\ sm.original_shape = Shape(df)
            /\ sm.rows_removed = df.rows - result.processed_df.rows
            /\ sm.columns_added = Cardinality(result.processed_df.columns)
                                     - Cardinality(df.columns)
            /\ sm.rows_removed_percent.den > 0
            /\ IF df.rows = 0
               THEN sm.rows_removed_percent.num = 0
               ELSE sm.rows_removed_percent.num * df.rows
                       = sm.rows_removed * 100 * sm.rows_removed_percent.den

\* one step of each status on a frame of MaxRows rows that lost a row and a
\* column
C14_Witness ==
    /\ Done
    /\ NSteps = 3
    /\ result.summary.successful_steps = 1
    /\ result.summary.failed_steps = 1
    /\ result.summary.skipped_steps = 1
    /\ result.summary.rows_removed = 1
    /\ result.summary.rows_removed_percent = [num |-> 100, den |-> MaxRows]
    /\ result.summary.columns_added = 0

---------------------------------------------------------------------------
(* C15 *)

\* C15: the end-to-end example.  validate accepts the plan with no error;
\* neither step can fail or be skipped; execute returns a log of two
\* 'success' entries, final_shape (100, 2) and columns_added = -1.
C15_EndToEndExample ==
    /\ ValidateEnded =>
          /\ ~vres.raised
          /\ vres.is_valid = TRUE
          /\ vres.errors = <<>>
    /\ (pc = "loop" /\ i < NSteps) =>
          /\ ~ENABLED ExecStepFailed
          /\ ~ENABLED ExecStepSkipped
    /\ Done =>
          /\ Len(result.execution_log) = 2
          /\ \A k \in 1..2 : result.execution_log[k].status = "success"
          /\ result.summary.final_shape = <<100, 2>>
          /\ result.summary.columns_added = -1

\* the run on a frame whose age column has a numeric dtype: id is gone and
\* the cells of age were filled
C15_Witness ==
    /\ Done
    /\ vres.is_valid
    /\ "age" \in df.numeric
    /\ result.processed_df.columns = {"age", "score"}
    /\ result.processed_df.cells = <<"fill_missing">>
    /\ result.summary.final_shape = <<100, 2>>
    /\ result.summary.original_shape = <<100, 3>>

---------------------------------------------------------------------------
(* C16 *)

EntryFields ==
    {"step", "operation", "status", "before_shape", "after_shape",
     "rows_changed", "columns_changed"}

\* C16: every entry of the log execute returns, whatever its status, carries
\* step, operation, status, before_shape, after_shape, rows_changed and
\* columns_changed; a failed entry carries error as well.
C16_EntryFields ==
    Done =>
        \A k \in 1..Len(result.execution_log) :
            /\ EntryFields \subseteq DOMAIN result.execution_log[k]
            /\ result.execution_log[k].status = "failed"
                  => "error" \in DOMAIN result.execution_log[k]

\* the same statement for the entries of status 'success' alone
C16_SuccessEntryFields ==
    Done =>
        \A k \in 1..Len(result.execution_log) :
            result.execution_log[k].status = "success"
                => EntryFields \subseteq DOMAIN result.execution_log[k]

---------------------------------------------------------------------------
(* C17 *)

SingleStepEnded == pc = "single_done"

\* C17: execute_single_step applies the transform execute applies for that
\* step and returns its result, but lets errors out: it raises ValueError
\* for an op that is not in the registry and the transform's own exception
\* when the transform raises, and then the dataset passed in is what it was
\* before.  Where execute gave the step the same frame, a skipped step is a
\* raise here, a failed step raises the logged error, and a successful step
\* returns the frame execute went on with.
C17_SingleStepPropagates ==
    SingleStepEnded =>
        LET k == result.step
            entry == history[1].result.execution_log[k]
        IN  /\ OpOf(k) \notin Registry =>
                  ~result.returned /\ result.raised = "ValueError"
            /\ ~result.returned => df = df_before
            /\ history[1].seen[k] = df_before =>
                  /\ entry.status = "skipped" =>
                        ~result.returned /\ result.raised = "ValueError"
                  /\ entry.status = "failed" =>
                        ~result.returned /\ result.raised = entry.error
                  /\ entry.status = "success" =>
                        result.returned /\ result.df = EarlierAfter(k)

\* step 1 is unknown and step 2 raises: execute logged skipped and failed,
\* execute_single_step raises for each, the dataset untouched
C17_Witness ==
    /\ SingleStepEnded
    /\ NSteps = 2
    /\ history[1].result.execution_log[1].status = "skipped"
    /\ history[1].result.execution_log[2].status = "failed"
    /\ result.step = 2
    /\ ~result.returned
    /\ result.raised = history[1].result.execution_log[2].error
    /\ df = df_before

---------------------------------------------------------------------------
(* C18 *)

\* validate did not accept the plan of the request
ValidationFailed == vres.returned /\ (vres.raised \/ ~vres.is_valid)

\* the executor was not called during the request
ExecutorNotCalled == result = NoResult /\ seen = <<>> /\ execution_log = <<>>

\* the session as it was when the request arrived
SessionAtRequest == history[Len(history)].session

\* within the route the loop of execute never meets an unregistered op
SkipNeverEnabledInRoute == pc = "loop" => ~ENABLED ExecStepSkipped

\* C18: validate-then-execute in the /execute route.  execute runs only once
\* validate returned is_valid = True for the plan being executed; when
\* validation fails the response carries the full list of validation errors,
\* the executor is not called, and the session's processed_df,
\* execution_result and report are what they were before the request.
C18_ValidateThenExecute ==
    /\ pc \in {"loop", "done"} =>
          /\ vres = [returned |-> TRUE] @@ Validate(profile, plan)
          /\ ~vres.raised
          /\ vres.is_valid = TRUE
    /\ (pc = "responded" /\ ValidationFailed) =>
          /\ response.status = 400
          /\ "validation_errors" \in DOMAIN response
          /\ response.validation_errors = vres.errors
          /\ Len(vres.errors) > 0
          /\ ExecutorNotCalled
          /\ session = SessionAtRequest

\* the same statement for the requests on whose plan validate returns
C18_WhenValidateReturns ==
    /\ pc \in {"loop", "done"} =>
          /\ vres = [returned |-> TRUE] @@ Validate(profile, plan)
          /\ ~vres.raised
          /\ vres.is_valid = TRUE
    /\ (pc = "responded" /\ ValidationFailed) =>
          /\ ExecutorNotCalled
          /\ session = SessionAtRequest
          /\ ~vres.raised =>
                /\ response.status = 400
                /\ response.validation_errors = vres.errors
                /\ Len(vres.errors) > 0

---------------------------------------------------------------------------
(* C19 *)

\* the contract errors each step produces on its own, in step order
ContractErrors ==
    Concat([k \in 1..NSteps |-> ValidateStep(profile, Steps(plan)[k], k - 1)])

\* the columns step j names, in the order the order check reads them
RefSeq(j) ==
    IF OpOf(j) \in {"fill_missing", "remove_outliers", "sort_by"}
    THEN <<Get(ParamsOf(j), "column", None)>>
    ELSE IF OpOf(j) \in {"scale_numeric", "encode_categorical"}
    THEN Get(ParamsOf(j), "columns", <<>>)
    ELSE <<>>

\* the referential-order errors, in step order
ReferentialErrors ==
    Concat([j \in 1..NSteps |->
              Concat([n \in 1..Len(RefSeq(j)) |->
                        IF RefSeq(j)[n] \in DroppedBefore(j)
                        THEN <<Err(j, "References dropped column", RefSeq(j)[n])>>
                        ELSE <<>>])])

\* C19: errors accumulate across steps.  For a plan whose 'steps' is a list
\* validate returns, and the list it returns is the contract errors of every
\* step in step order followed by all referential-order errors in step
\* order: no step's error suppresses another step's.
C19_ErrorsAccumulate ==
    (ValidateEnded /\ PlanIsList) =>
        /\ ~vres.raised
        /\ vres.errors = ContractErrors \o ReferentialErrors

\* the same statement for the plans whose steps all carry 'op'
C19_AccumulateWhenEveryStepHasOp ==
    (ValidateEnded /\ PlanIsList /\ EveryStepHasOp) =>
        /\ ~vres.raised
        /\ vres.errors = ContractErrors \o ReferentialErrors

---------------------------------------------------------------------------
(* C20 *)

Reported(e) == \E n \in 1..Len(vres.errors) : vres.errors[n] = e

\* the operations that require a parameter, and the parameter
RequiredParam(op) ==
    CASE op \in {"drop_columns", "scale_numeric", "encode_categorical"} -> "columns"
      [] op \in {"fill_missing", "remove_outliers", "sort_by"} -> "column"
      [] OTHER -> None

\* C20: malformed steps are reported, not raised.  For a plan whose 'steps'
\* is a list validate returns; a step without 'op' gives is_valid = False
\* and the error 'Step k: Missing 'op' field', a step without its required
\* parameter the error that names the parameter, and the errors of the other
\* steps are returned with them.
C20_MalformedStepsReported ==
    (ValidateEnded /\ PlanIsList) =>
        /\ ~vres.raised
        /\ \A k \in 1..NSteps :
              /\ "op" \notin DOMAIN Steps(plan)[k] =>
                    /\ vres.is_valid = FALSE
                    /\ Reported(Err(k, "Missing 'op' field", None))
              /\ (OpOf(k) \in VALID_OPERATIONS
                    /\ RequiredParam(OpOf(k)) # None
                    /\ RequiredParam(OpOf(k)) \notin DOMAIN ParamsOf(k)) =>
                    /\ vres.is_valid = FALSE
                    /\ \E n \in 1..Len(vres.errors) :
                          vres.errors[n].step = k /\ vres.errors[n].arg = None
        /\ \A n \in 1..Len(ContractErrors) : Reported(ContractErrors[n])

\* the part of the statement about a missing required parameter, for the
\* plans whose steps all carry 'op'
C20_MissingParamReported ==
    (ValidateEnded /\ PlanIsList /\ EveryStepHasOp) =>
        /\ ~vres.raised
        /\ \A k \in 1..NSteps :
              (OpOf(k) \in VALID_OPERATIONS
                 /\ RequiredParam(OpOf(k)) # None
                 /\ RequiredParam(OpOf(k)) \notin DOMAIN ParamsOf(k)) =>
                 /\ vres.is_valid = FALSE
                 /\ \E n \in 1..Len(vres.errors) :
                       vres.errors[n].step = k /\ vres.errors[n].arg = None
        /\ \A n \in 1..Len(ContractErrors) : Reported(ContractErrors[n])

---------------------------------------------------------------------------
(* C21 *)

\* the columns the params of step k name, for the kinds whose params name
\* columns
NamedColumns(k) ==
    CASE OpOf(k) \in {"fill_missing", "remove_outliers", "sort_by", "filter_rows"} ->
            IF "column" \in DOMAIN ParamsOf(k) THEN {ParamsOf(k)["column"]} ELSE {}
      [] OpOf(k) \in {"drop_columns", "scale_numeric", "encode_categorical"} ->
            Range(Get(ParamsOf(k), "columns", <<>>))
      [] OpOf(k) = "drop_duplicates" -> Range(Get(ParamsOf(k), "subset", <<>>))
      [] OTHER -> {}

\* some returned error names step k and column c
NamesStepAndColumn(k, c) ==
    \E n \in 1..Len(vres.errors) : vres.errors[n].step = k /\ vres.errors[n].arg = c

\* the kinds that have a parameter check in _validate_step
ParamCheckedKinds ==
    {"drop_columns", "fill_missing", "remove_outliers", "scale_numeric",
     "encode_categorical", "sort_by"}

\* C21: column existence is checked for every accepted operation.  For
\* every step whose op the validator accepts and whose params name a column
\* that is not among the profile's column_names, validate returns
\* is_valid = False with an error naming the step and the column.
C21_ColumnExistenceChecked ==
    (ValidateEnded /\ PlanIsList /\ EveryStepHasOp) =>
        \A k \in 1..NSteps :
            OpOf(k) \in VALID_OPERATIONS =>
                \A c \in NamedColumns(k) :
                    c \notin profile.column_names =>
                        /\ ~vres.raised
                        /\ vres.is_valid = FALSE
                        /\ NamesStepAndColumn(k, c)

\* the same statement for the six kinds that have a parameter check
C21_ExistenceCheckedForSixKinds ==
    (ValidateEnded /\ PlanIsList /\ EveryStepHasOp) =>
        \A k \in 1..NSteps :
            OpOf(k) \in ParamCheckedKinds =>
                \A c \in NamedColumns(k) :
                    c \notin profile.column_names =>
                        /\ ~vres.raised
                        /\ vres.is_valid = FALSE
                        /\ NamesStepAndColumn(k, c)

---------------------------------------------------------------------------
(* C22 *)

\* the existing columns step k must find numeric: fill_missing with mean or
\* median (mean when 'strategy' is omitted), remove_outliers, scale_numeric
KindBound(k) ==
    {c \in NamedColumns(k) \cap profile.column_names :
        \/ OpOf(k) = "fill_missing"
             /\ Get(ParamsOf(k), "strategy", "mean") \in {"mean", "median"}
        \/ OpOf(k) \in {"remove_outliers", "scale_numeric"}}

KindMessages ==
    {"Cannot use strategy on non-numeric column",
     "Cannot remove outliers from non-numeric column",
     "Cannot scale non-numeric column"}

\* some returned error of step k about column c is a kind error
KindErrorOn(k, c) ==
    \E n \in 1..Len(vres.errors) :
        /\ vres.errors[n].step = k
        /\ vres.errors[n].arg = c
        /\ vres.errors[n].msg \in KindMessages

---------------------------------------------------------------------------
(* C23 *)

\* the columns the params of step k reference, for every registry operation
ReferencedColumns(k) ==
    LET p == ParamsOf(k)
        One(key) == IF key \in DOMAIN p THEN {p[key]} ELSE {}
        Many(key) == Range(Get(p, key, <<>>))
    IN  CASE OpOf(k) \in {"fill_missing", "remove_outliers", "filter_rows", "sort_by",
                          "extract_datetime_features", "create_text_features",
                          "handle_high_cardinality"} -> One("column")
          [] OpOf(k) \in {"drop_columns", "scale_numeric", "encode_categorical"} ->
                Many("columns")
          [] OpOf(k) = "drop_duplicates" -> Many("subset")
          [] OpOf(k) = "aggregate_features" -> One("group_by") \cup One("agg_column")
          [] OpOf(k) = "create_feature" ->
                Many("expression") \cup One("column") \cup Many("columns")
          [] OTHER -> {}

\* step k references columns, and the dataset it received has none of them
AllReferencesAbsent(k) ==
    /\ OpOf(k) \in Registry
    /\ ReferencedColumns(k) # {}
    /\ ReferencedColumns(k) \cap seen[k].columns = {}

\* step k was logged as a success that changed nothing
LoggedAsNoOp(k) ==
    /\ execution_log[k].status = "success"
    /\ execution_log[k].rows_changed = 0
    /\ execution_log[k].columns_changed = 0
    /\ After(k) = seen[k]

\* C23: general no-op tolerance.  For each registry operation, a step whose
\* params reference only columns that are absent from the current dataset
\* returns the dataset unchanged without raising, and execute logs it as
\* 'success' with rows_changed = 0 and columns_changed = 0, never 'failed'.
C23_NoOpTolerance ==
    Done => \A k \in 1..Len(execution_log) :
                AllReferencesAbsent(k) => LoggedAsNoOp(k)

\* the same statement for every registry operation but drop_duplicates
C23_ToleranceButDropDuplicates ==
    Done => \A k \in 1..Len(execution_log) :
                (AllReferencesAbsent(k) /\ OpOf(k) # "drop_duplicates")
                    => LoggedAsNoOp(k)

---------------------------------------------------------------------------
(* C24 *)

\* dry_run has taken its sample and not yet run a step
Sampled == pc = "dry_loop" /\ i = 0

Min(a, b) == IF a <= b THEN a ELSE b

\* the labels of the frame are pairwise different and all labels of df
DistinctRowsOfDataset(d) ==
    /\ Len(d.index) = d.rows
    /\ Cardinality(Range(d.index)) = d.rows
    /\ Range(d.index) \subseteq Range(df.index)

---------------------------------------------------------------------------
(* C25 *)

\* dry_run has ended after an execute on the same dataset and plan
DryRunAfterExecute ==
    pc = "dry_done" /\ history # <<>> /\ history[1].call = "done"

\* the entry of dry_run's estimated_impact that goes with an entry of
\* execute's log
Corresponds(entry, impact) ==
    /\ impact.step = entry.step
    /\ impact.operation = entry.operation
    /\ CASE entry.status = "success" ->
              /\ "impact" \notin DOMAIN impact
              /\ impact.estimated_rows_affected = entry.rows_changed
              /\ impact.estimated_columns_affected = entry.columns_changed
         [] entry.status = "failed" ->
              /\ "impact" \in DOMAIN impact
              /\ impact.impact = "error"
              /\ impact.error = entry.error
         [] entry.status = "skipped" ->
              /\ "impact" \in DOMAIN impact
              /\ impact.impact = "unknown"

\* the two calls agree step by step
StepLoopsAgree ==
    /\ result.returned
    /\ Len(result.estimated_impact) = NSteps
    /\ Len(history[1].result.execution_log) = NSteps
    /\ \A k \in 1..NSteps :
          Corresponds(history[1].result.execution_log[k], result.estimated_impact[k])

\* C25: dry_run runs the same step loop as execute.  On a dataset of 1 to
\* 1000 rows estimated_impact has one entry per step, entry i corresponding
\* to entry i of execute's log, and estimated_final_shape is execute's
\* summary.final_shape, its row count being
\* floor(row_count * sample_final_rows / sample_initial_rows).
C25_DryRunMatchesExecute ==
    (DryRunAfterExecute /\ df.rows >= 1 /\ df.rows <= 1000) =>
        /\ StepLoopsAgree
        /\ result.estimated_final_shape = history[1].result.summary.final_shape
        /\ result.estimated_final_shape[1]
              = (df.rows * current_df.rows) \div sample_df.rows

\* the same statement without the row count of estimated_final_shape
C25_StepLoopsAndColumnsAgree ==
    (DryRunAfterExecute /\ df.rows >= 1 /\ df.rows <= 1000) =>
        /\ StepLoopsAgree
        /\ result.estimated_final_shape[2] = history[1].result.summary.final_shape[2]

---------------------------------------------------------------------------
(* C26 *)

\* request r is between its read of the session and its response
InFlight(r) ==
    history[r].pc \in {"validated", "executed", "stored_df", "stored_result"}

\* both requests have been answered
AllResponded == \A r \in Requests : history[r].pc = "responded"

\* the three entries of the session are those of request r's execution
StoredBy(r) ==
    /\ history[r].result.returned
    /\ session.processed_df = history[r].result.processed_df
    /\ session.execution_result = history[r].result
    /\ session.report = history[r].report

\* C26: per-session exclusivity of the session store.  Under any
\* interleaving of the /execute requests on one session id no two
\* executions of the session are in flight at once, and once all requests
\* are answered the session's processed_df, execution_result and report
\* come from one and the same execution.
C26_SessionExclusive ==
    /\ \A r, q \in Requests : (InFlight(r) /\ InFlight(q)) => r = q
    /\ (AllResponded /\ "report" \in DOMAIN session) =>
          \E r \in Requests : StoredBy(r)

\* what holds without exclusivity: each entry of the session is the entry
\* of some answered or running execution
C26_EntriesFromSomeExecution ==
    /\ "processed_df" \in DOMAIN session =>
          \E r \in Requests : history[r].result.returned
                              /\ session.processed_df = history[r].result.processed_df
    /\ "execution_result" \in DOMAIN session =>
          \E r \in Requests : session.execution_result = history[r].result
    /\ "report" \in DOMAIN session =>
          \E r \in Requests : session.report = history[r].report

---------------------------------------------------------------------------
(* C27 *)

\* the sum of a numeric field over the 'success' entries of the first k
\* entries of the log
RECURSIVE SumOverSuccess(_, _, _)
SumOverSuccess(log, field, k) ==
    IF k = 0 THEN 0
    ELSE SumOverSuccess(log, field, k - 1)
         + (IF log[k].status = "success" THEN log[k][field] ELSE 0)

\* C27: shape chain of the log.  The before_shape of each 'success' entry is
\* the after_shape of the nearest preceding 'success' entry, or
\* summary.original_shape when there is none; hence the rows_changed of the
\* success entries add up to summary.rows_removed and their columns_changed
\* to summary.columns_added.
C27_ShapeChain ==
    Done =>
        LET log == result.execution_log
        IN  /\ \A k \in 1..Len(log) :
                  log[k].status = "success" =>
                      log[k].before_shape =
                          IF LastSuccess(log, k - 1) = 0
                          THEN result.summary.original_shape
                          ELSE log[LastSuccess(log, k - 1)].after_shape
            /\ SumOverSuccess(log, "rows_changed", Len(log)) = result.summary.rows_removed
            /\ SumOverSuccess(log, "columns_changed", Len(log))
                  = result.summary.columns_added

\* a success that changed the shape, a failed step, then a success that
\* changed the shape again
C27_Witness ==
    /\ Done
    /\ NSteps = 3
    /\ result.execution_log[1].status = "success"
    /\ result.execution_log[1].before_shape # result.execution_log[1].after_shape
    /\ result.execution_log[2].status = "failed"
    /\ result.execution_log[3].status = "success"
    /\ result.execution_log[3].before_shape # result.execution_log[3].after_shape
    /\ result.execution_log[3].before_shape = result.execution_log[1].after_shape

---------------------------------------------------------------------------
(* C28 *)

DryRunEnded == pc = "dry_done"

\* the working sample had no rows left when step k began
EmptiedBefore(k) == seen[k].rows = 0

\* C28: dry_run returns a result for every dataset and every plan of mapping
\* steps; for a dataset without rows the result has sample_size = 0 and an
\* estimated_final_shape of 0 rows, and once a step has emptied the working
\* sample the later steps report impact_percent = 0.
C28_DryRunAlwaysReturns ==
    DryRunEnded =>
        /\ result.returned
        /\ df.rows = 0 =>
              /\ result.sample_size = 0
              /\ result.estimated_final_shape[1] = 0
        /\ \A k \in 1..Len(result.estimated_impact) :
              (EmptiedBefore(k) /\ "impact_percent" \in DOMAIN result.estimated_impact[k])
                  => result.estimated_impact[k].impact_percent.num = 0

\* the same statement for the datasets that have rows
C28_ReturnsWhenDatasetHasRows ==
    (DryRunEnded /\ df.rows > 0) =>
        /\ result.returned
        /\ \A k \in 1..Len(result.estimated_impact) :
              (EmptiedBefore(k) /\ "impact_percent" \in DOMAIN result.estimated_impact[k])
                  => result.estimated_impact[k].impact_percent.num = 0

\* a dry_run on a dataset with rows whose first step emptied the working
\* sample returned, a later step reporting an impact
C28_EmptiedSampleReached ==
    /\ DryRunEnded /\ df.rows > 0 /\ result.returned
    /\ \E k \in 2..Len(result.estimated_impact) :
          /\ EmptiedBefore(k) /\ ~EmptiedBefore(k - 1)
          /\ "impact_percent" \in DOMAIN result.estimated_impact[k]

---------------------------------------------------------------------------
(* C29 *)

\* the enumerated parameter of step k: its value (the transform's default
\* when the step omits it) and the values the transform has a branch for
EnumOf(k) ==
    CASE OpOf(k) = "fill_missing" ->
            [value |-> Get(ParamsOf(k), "strategy", "mean"), branches |-> FILL_BRANCHES]
      [] OpOf(k) = "remove_outliers" ->
            [value |-> Get(ParamsOf(k), "method", "iqr"), branches |-> OUTLIER_BRANCHES]
      [] OpOf(k) = "scale_numeric" ->
            [value |-> Get(ParamsOf(k), "method", "standard"), branches |-> SCALING_BRANCHES]
      [] OpOf(k) = "encode_categorical" ->
            [value |-> Get(ParamsOf(k), "method", "onehot"), branches |-> ENCODING_BRANCHES]
      [] OTHER -> [value |-> None, branches |-> {None}]

\* step k went past the transform's early returns, matched none of its
\* branches, and was logged 'success' with the dataset as it was
FellThrough(k) ==
    /\ execution_log[k].status = "success"
    /\ ~ReturnsArgument(OpOf(k), seen[k], ParamsOf(k))
    /\ EnumOf(k).value \notin EnumOf(k).branches
    /\ After(k) = seen[k]

\* C29: every enum value the validator accepts is implemented by the
\* transform it guards: no step of a plan that validate accepted falls
\* through every branch of its transform and is logged 'success' with the
\* dataset untouched.
C29_AcceptedValuesImplemented ==
    (Done /\ Validated /\ vres.is_valid) =>
        \A k \in 1..Len(execution_log) : ~FellThrough(k)

\* the same statement for the three transforms other than remove_outliers
C29_ImplementedButRemoveOutliers ==
    (Done /\ Validated /\ vres.is_valid) =>
        \A k \in 1..Len(execution_log) :
            OpOf(k) # "remove_outliers" => ~FellThrough(k)

---------------------------------------------------------------------------
(* C30 *)

\* validate accepts plan p against profile pr
Accepted(pr, p) ==
    LET v == Validate(pr, p) IN ~v.raised /\ v.is_valid

\* the plan stored in session sid, if any, passes validate against the
\* session's profile
HoldsValidatedPlan(sid) ==
    "plan" \in DOMAIN session[sid] =>
        Accepted(session[sid].profile, session[sid].plan)

\* the /dry-run request in progress runs the stored plan
RunsStoredPlan ==
    /\ pc \in {"dry_start", "dry_loop", "dry_done"}
    /\ history[Len(history)].stored

\* C30: in every state of the session store the plan held under a session's
\* 'plan' key has passed validate against that session's profile, whichever
\* route wrote it, and /dry-run only ever runs a validated stored plan.
C30_StoredPlansValidated ==
    /\ \A sid \in DOMAIN session : HoldsValidatedPlan(sid)
    /\ RunsStoredPlan => Accepted(profile, plan)

\* the same for the sessions /full-workflow did not create: /plan and
\* /regenerate-plan store accepted plans only
C30_ValidatedUnlessFullWorkflow ==
    /\ \A sid \in DOMAIN session :
          "health_score" \notin DOMAIN session[sid] => HoldsValidatedPlan(sid)
    /\ (RunsStoredPlan /\ "health_score" \notin DOMAIN session[history[Len(history)].sid])
          => Accepted(profile, plan)

\* a plan validate did not accept is not written to the store
C30_RejectedPlanReplacesNothing ==
    [][(pc = "validated" /\ ~Accepted(profile, plan)) => session' = session]_vars

\* a rejected regeneration left the stored plan in place, and /dry-run then
\* ran a stored plan
C30_RejectedRegenerationReached ==
    /\ pc = "idle" /\ history # <<>>
    /\ history[Len(history)].route = "/regenerate-plan"
    /\ response.returned /\ response.status = 200 /\ ~response.valid
    /\ "plan" \in DOMAIN session[history[Len(history)].sid]

====
